---- MODULE Spec2Model ----
(***************************************************************************)
(* Reconciliation core of iam-lifecycle-demo: the identity engine          *)
(* (identity_engine.py), the diff (diff.py), the two mock provisioners     *)
(* (google_ws_mock.py, github_mock.py), the sync task (workers/tasks.py),  *)
(* the HR upload (routes_hr.py) and the user endpoints that change an      *)
(* employee (routes_users.py).                                             *)
(*                                                                         *)
(* Python strings on which the code computes (strip, lower, split,         *)
(* sorted) are sequences of one-character strings.  Python's None is the   *)
(* one-element sequence <<"None">>, which no string equals because its     *)
(* element is not a character.  E-mail addresses, targets and action       *)
(* names are only compared for equality and are TLA+ strings.              *)
(***************************************************************************)
EXTENDS Integers, Sequences, FiniteSets, TLC

VARIABLES users, cfg, backups, audit, procs, gState, hState, queue, runs, ret, call

vars == <<users, cfg, backups, audit, procs, gState, hState, queue, runs, ret, call>>

(***************************************************************************)
(* Bounds of the model.                                                    *)
(***************************************************************************)
MaxListLen == 2
MaxPredLen == 6
MaxQueue == 1
MaxRuns == 3
MaxWorkerRuns == 2
MaxBackups == 2
MaxAudit == 3
MaxRules == 2
MaxCsvRows == 2
MaxPolicyRuns == 1
MaxPlanLen == 3
MaxStepPlanLen == 1

(***************************************************************************)
(* Python strings.                                                         *)
(***************************************************************************)
None == <<"None">>

\* the characters of the model in code-point order
Chars == <<" ", "!", "\"", "'", "=", "A", "B", "C", "D", "E", "F", "G", "H",
           "I", "J", "K", "L", "M", "N", "O", "P", "Q", "R", "S", "T", "U",
           "V", "W", "X", "Y", "Z", "_", "a", "b", "c", "d", "e", "f", "g",
           "h", "i", "j", "k", "l", "m", "n", "o", "p", "q", "r", "s", "t",
           "u", "v", "w", "x", "y", "z">>

UpperChars == <<"A", "B", "C", "D", "E", "F", "G", "H", "I", "J", "K", "L",
                "M", "N", "O", "P", "Q", "R", "S", "T", "U", "V", "W", "X",
                "Y", "Z">>

LowerChars == <<"a", "b", "c", "d", "e", "f", "g", "h", "i", "j", "k", "l",
                "m", "n", "o", "p", "q", "r", "s", "t", "u", "v", "w", "x",
                "y", "z">>

Ord(c) == CHOOSE i \in 1..Len(Chars) : Chars[i] = c

\* str.__lt__: lexicographic order by code point
RECURSIVE StrLess(_, _)
StrLess(s, t) ==
    IF t = <<>> THEN FALSE
    ELSE IF s = <<>> THEN TRUE
    ELSE IF Head(s) = Head(t) THEN StrLess(Tail(s), Tail(t))
    ELSE Ord(Head(s)) < Ord(Head(t))

LowerChar(c) ==
    IF \E i \in 1..Len(UpperChars) : UpperChars[i] = c
    THEN LowerChars[CHOOSE i \in 1..Len(UpperChars) : UpperChars[i] = c]
    ELSE c

\* str.lower()
Lower(s) == [i \in 1..Len(s) |-> LowerChar(s[i])]

RECURSIVE LStrip(_, _)
LStrip(s, cs) == IF s # <<>> /\ Head(s) \in cs THEN LStrip(Tail(s), cs) ELSE s

RECURSIVE RStrip(_, _)
RStrip(s, cs) ==
    IF s # <<>> /\ s[Len(s)] \in cs THEN RStrip(SubSeq(s, 1, Len(s) - 1), cs) ELSE s

\* str.strip(chars)
StripChars(s, cs) == RStrip(LStrip(s, cs), cs)

\* str.strip()
Strip(s) == StripChars(s, {" "})

\* the index of the first occurrence of sep in s, 0 when there is none
Find(s, sep) ==
    LET hits == {i \in 1..(Len(s) - Len(sep) + 1) : SubSeq(s, i, i + Len(sep) - 1) = sep}
    IN  IF hits = {} THEN 0 ELSE CHOOSE i \in hits : \A j \in hits : i <= j

\* (value or "")
OrEmpty(v) == IF v = None THEN <<>> ELSE v

EqSep == <<" ", "=", "=", " ">>
NeSep == <<" ", "!", "=", " ">>
Quotes == {"\"", "'"}

S_terminated == <<"t", "e", "r", "m", "i", "n", "a", "t", "e", "d">>
S_Terminated == <<"T", "e", "r", "m", "i", "n", "a", "t", "e", "d">>
S_TERMINATED == <<"T", "E", "R", "M", "I", "N", "A", "T", "E", "D">>
S_TerminatedPadded == <<" ", "T", "e", "r", "m", "i", "n", "a", "t", "e", "d", " ">>
S_Active == <<"A", "c", "t", "i", "v", "e">>
S_Inactive == <<"I", "n", "a", "c", "t", "i", "v", "e">>
S_location == <<"l", "o", "c", "a", "t", "i", "o", "n">>
S_employment_type == <<"e", "m", "p", "l", "o", "y", "m", "e", "n", "t", "_", "t", "y", "p", "e">>
S_department == <<"d", "e", "p", "a", "r", "t", "m", "e", "n", "t">>
S_title == <<"t", "i", "t", "l", "e">>
S_status == <<"s", "t", "a", "t", "u", "s">>
S_Eng == <<"E", "n", "g">>
S_Sales == <<"S", "a", "l", "e", "s">>
S_Remote == <<"R", "e", "m", "o", "t", "e">>
S_US == <<"U", "S">>
S_SE == <<"S", "E">>
S_FT == <<"F", "T">>

(***************************************************************************)
(* Entitlement structures.  A nested dict {system: {kind: [names]}} is a   *)
(* function from <<system, kind>> pairs to a list of names.                *)
(***************************************************************************)
GoogleGroups == <<"google", "groups">>
GithubTeams == <<"github", "teams">>

\* d.get(system, {}).get(kind, [])
EntGet(d, key) == IF key \in DOMAIN d THEN d[key] ELSE <<>>

Range(s) == {s[i] : i \in 1..Len(s)}

\* sorted(S) for a set S of strings
RECURSIVE Sorted(_)
Sorted(S) ==
    IF S = {} THEN <<>>
    ELSE LET m == CHOOSE x \in S : \A y \in S : x = y \/ StrLess(x, y)
         IN  <<m>> \o Sorted(S \ {m})

\* list.remove(x): the first occurrence goes
RECURSIVE ListRemove(_, _)
ListRemove(l, x) ==
    IF l = <<>> THEN <<>>
    ELSE IF Head(l) = x THEN Tail(l)
    ELSE <<Head(l)>> \o ListRemove(Tail(l), x)

RECURSIVE ListInsert(_, _)
ListInsert(l, x) ==
    IF l = <<>> THEN <<x>>
    ELSE IF StrLess(x, Head(l)) THEN <<x>> \o l
    ELSE <<Head(l)>> \o ListInsert(Tail(l), x)

\* list.sort()
RECURSIVE ListSort(_)
ListSort(l) == IF l = <<>> THEN <<>> ELSE ListInsert(ListSort(Tail(l)), Head(l))

(***************************************************************************)
(* IdentityEngine._safe_eval_rule                                          *)
(***************************************************************************)
Raised == [raised |-> TRUE, val |-> FALSE]
Returned(b) == [raised |-> FALSE, val |-> b]

\* context.get(field)
CtxGet(context, field) == IF field \in DOMAIN context THEN context[field] ELSE None

SafeEvalRule_FallThroughTrue(rule_expr, context) ==
    IF rule_expr = None THEN Raised
    ELSE LET e == Strip(rule_expr)
             i == Find(e, EqSep)
             j == Find(e, NeSep)
         IN  IF i > 0
             THEN LET field == Strip(SubSeq(e, 1, i - 1))
                      value == StripChars(Strip(SubSeq(e, i + 4, Len(e))), Quotes)
                  IN  Returned(CtxGet(context, field) = value)
             ELSE IF j > 0
             THEN LET field == Strip(SubSeq(e, 1, j - 1))
                      value == StripChars(Strip(SubSeq(e, j + 4, Len(e))), Quotes)
                  IN  Returned(CtxGet(context, field) # value)
             ELSE Returned(TRUE)

SafeEvalRule(rule_expr, context) ==
    IF rule_expr = None THEN Raised
    ELSE LET e == Strip(rule_expr)
             i == Find(e, EqSep)
             j == Find(e, NeSep)
         IN  IF i > 0
             THEN LET field == Strip(SubSeq(e, 1, i - 1))
                      value == StripChars(Strip(SubSeq(e, i + 4, Len(e))), Quotes)
                  IN  Returned(CtxGet(context, field) = value)
             ELSE IF j > 0
             THEN LET field == Strip(SubSeq(e, 1, j - 1))
                      value == StripChars(Strip(SubSeq(e, j + 4, Len(e))), Quotes)
                  IN  Returned(CtxGet(context, field) # value)
             ELSE Returned(FALSE)

(***************************************************************************)
(* IdentityEngine.desired_for_user                                         *)
(***************************************************************************)
EmptyDesired == (GoogleGroups :> <<>>) @@ (GithubTeams :> <<>>)

\* the ctx dict built for every rule
RuleContext(user) ==
    (S_location :> user.location) @@ (S_employment_type :> user.employment_type) @@
    (S_department :> user.department) @@ (S_title :> user.title) @@
    (S_status :> user.status)

\* a grant that replaces what is there instead of adding to it
AddGrant_Replace(desired, grant) ==
    [key \in (DOMAIN desired) \cup (DOMAIN grant) |->
        IF key \in DOMAIN grant THEN grant[key] ELSE desired[key]]

\* desired.setdefault(sys, {}).setdefault(k, []); desired[sys][k] += v, for every (sys, k)
AddGrant(desired, grant) ==
    [key \in (DOMAIN desired) \cup (DOMAIN grant) |->
        EntGet(desired, key) \o EntGet(grant, key)]

\* the role's grants: google.groups and github.teams only
AddRole(desired, role) ==
    [key \in DOMAIN desired |->
        IF key \in {GoogleGroups, GithubTeams}
        THEN desired[key] \o EntGet(role, key) ELSE desired[key]]

\* the loop when an exception ends it instead of skipping the rule
RECURSIVE ApplyRules_StopAtError(_, _, _)
ApplyRules_StopAtError(rules, user, desired) ==
    IF rules = <<>> THEN desired
    ELSE LET rule == Head(rules)
             r == SafeEvalRule(rule.when, RuleContext(user))
         IN  IF r.raised THEN desired
             ELSE IF ~r.val
             THEN ApplyRules_StopAtError(Tail(rules), user, desired)
             ELSE ApplyRules_StopAtError(Tail(rules), user, AddGrant(desired, rule.grant))

RECURSIVE ApplyRules(_, _, _)
ApplyRules(rules, user, desired) ==
    IF rules = <<>> THEN desired
    ELSE LET rule == Head(rules)
             r == SafeEvalRule(rule.when, RuleContext(user))
         IN  IF r.raised \/ ~r.val
             THEN ApplyRules(Tail(rules), user, desired)
             ELSE ApplyRules(Tail(rules), user, AddGrant(desired, rule.grant))

\* sorted(...) without the set(...)
Normalize_KeepDuplicates(desired) == [key \in DOMAIN desired |-> ListSort(desired[key])]

Normalize(desired) == [key \in DOMAIN desired |-> Sorted(Range(desired[key]))]

DesiredForUser_CaseSensitive(user, policy) ==
    LET user_status == Strip(OrEmpty(user.status))
        dept == Strip(OrEmpty(user.department))
        withRole == IF dept \in DOMAIN policy.roles
                    THEN AddRole(EmptyDesired, policy.roles[dept])
                    ELSE EmptyDesired
    IN  IF user_status = S_terminated
        THEN EmptyDesired
        ELSE Normalize(ApplyRules(policy.rules, user, withRole))

DesiredForUser(user, policy) ==
    LET user_status == Strip(OrEmpty(user.status))
        dept == Strip(OrEmpty(user.department))
        withRole == IF dept \in DOMAIN policy.roles
                    THEN AddRole(EmptyDesired, policy.roles[dept])
                    ELSE EmptyDesired
    IN  IF Lower(user_status) = S_terminated
        THEN EmptyDesired
        ELSE Normalize(ApplyRules(policy.rules, user, withRole))

(***************************************************************************)
(* What desired_for_user writes.  Its += extends a list in place, so the   *)
(* list object that desired[sys][k] is decides what is written: a list of  *)
(* the call's own, or a list that the loaded policy holds.                 *)
(***************************************************************************)
\* a list that nothing else holds, and the list of a rule's grant
FreshList == [obj |-> "fresh"]
GrantList(n, key) == [obj |-> "grant", rule |-> n, key |-> key]

\* the lists of desired = {"google": {"groups": []}, "github": {"teams": []}}
OwnLists == [key \in DOMAIN EmptyDesired |-> FreshList]

\* setdefault(k, v) in place of setdefault(k, []): the list of rule n itself
NewList_GrantList(n, key) == GrantList(n, key)

\* desired.setdefault(sys, {}).setdefault(k, []): a new list
NewList(n, key) == FreshList

\* the list objects of desired after the setdefault calls for rule n
ListsAfter(objs, n, grant) ==
    [key \in (DOMAIN objs) \cup (DOMAIN grant) |->
        IF key \in DOMAIN objs THEN objs[key] ELSE NewList(n, key)]

\* desired[sys][k] += v for the grants of rule n: a list of the policy is
\* extended where desired[sys][k] is that list
PolicyAfterGrant(policy, objs, n) ==
    [roles |-> policy.roles,
     rules |-> [m \in 1..Len(policy.rules) |->
        [when |-> policy.rules[m].when,
         grant |-> [key \in DOMAIN policy.rules[m].grant |->
                 IF key \in DOMAIN policy.rules[n].grant /\ objs[key] = GrantList(m, key)
                 THEN policy.rules[m].grant[key] \o policy.rules[n].grant[key]
                 ELSE policy.rules[m].grant[key]]]]]

\* the loop over the rules, from rule n on
RECURSIVE PolicyAfterRules(_, _, _, _)
PolicyAfterRules(n, user, policy, objs) ==
    IF n > Len(policy.rules) THEN policy
    ELSE IF SafeEvalRule(policy.rules[n].when, RuleContext(user)).raised
    THEN PolicyAfterRules(n + 1, user, policy, objs)
    ELSE IF ~SafeEvalRule(policy.rules[n].when, RuleContext(user)).val
    THEN PolicyAfterRules(n + 1, user, policy, objs)
    ELSE PolicyAfterRules(n + 1, user,
                          PolicyAfterGrant(policy, ListsAfter(objs, n, policy.rules[n].grant), n),
                          ListsAfter(objs, n, policy.rules[n].grant))

\* self.cfg after desired_for_user(user): a terminated employee returns
\* before the policy is read, and the role's lists are added to the call's
\* own lists
PolicyAfterDesiredForUser(user, policy) ==
    IF Lower(Strip(OrEmpty(user.status))) = S_terminated THEN policy
    ELSE PolicyAfterRules(1, user, policy, OwnLists)

(***************************************************************************)
(* diff.plan_changes                                                       *)
(***************************************************************************)
GoogleAdd(g) == [target |-> "google", action |-> "add_group", group |-> g]
GoogleRemove(g) == [target |-> "google", action |-> "remove_group", group |-> g]
GithubAdd(t) == [target |-> "github", action |-> "add_team", team |-> t]
GithubRemove(t) == [target |-> "github", action |-> "remove_team", team |-> t]

PlanChanges_RemoveFirst(desired, current) ==
    LET d_groups == Range(EntGet(desired, GoogleGroups))
        c_groups == Range(EntGet(current, GoogleGroups))
        d_teams == Range(EntGet(desired, GithubTeams))
        c_teams == Range(EntGet(current, GithubTeams))
        ga == Sorted(d_groups \ c_groups)
        gr == Sorted(c_groups \ d_groups)
        ta == Sorted(d_teams \ c_teams)
        tr == Sorted(c_teams \ d_teams)
    IN  [i \in 1..Len(gr) |-> GoogleRemove(gr[i])] \o
        [i \in 1..Len(ga) |-> GoogleAdd(ga[i])] \o
        [i \in 1..Len(ta) |-> GithubAdd(ta[i])] \o
        [i \in 1..Len(tr) |-> GithubRemove(tr[i])]

PlanChanges(desired, current) ==
    LET d_groups == Range(EntGet(desired, GoogleGroups))
        c_groups == Range(EntGet(current, GoogleGroups))
        d_teams == Range(EntGet(desired, GithubTeams))
        c_teams == Range(EntGet(current, GithubTeams))
        ga == Sorted(d_groups \ c_groups)
        gr == Sorted(c_groups \ d_groups)
        ta == Sorted(d_teams \ c_teams)
        tr == Sorted(c_teams \ d_teams)
    IN  [i \in 1..Len(ga) |-> GoogleAdd(ga[i])] \o
        [i \in 1..Len(gr) |-> GoogleRemove(gr[i])] \o
        [i \in 1..Len(ta) |-> GithubAdd(ta[i])] \o
        [i \in 1..Len(tr) |-> GithubRemove(tr[i])]

(***************************************************************************)
(* The mock provisioners.  gState and hState are the two module-level      *)
(* _STATE dicts: e-mail -> the "groups" (the "teams") list recorded for    *)
(* that identity.  A Python list is an object: fetch_current hands out the *)
(* list stored in _STATE itself, so a value that holds it is a reference   *)
(* (StateRef) and shows whatever apply later does to that list.            *)
(***************************************************************************)
StateRef(sys, email) == [obj |-> "state", sys |-> sys, email |-> email]

Deref(ref, g, h) ==
    IF ref.obj = "fresh" THEN <<>>
    ELSE IF ref.sys = "google" THEN g[ref.email] ELSE h[ref.email]

GoogleFetchCurrent(g, user_email) ==
    IF user_email \in DOMAIN g THEN StateRef("google", user_email) ELSE FreshList

GithubFetchCurrent(h, user_email) ==
    IF user_email \in DOMAIN h THEN StateRef("github", user_email) ELSE FreshList

\* the loop when add_group appends without looking for the name
RECURSIVE GoogleApplyLoop_AddAlways(_, _)
GoogleApplyLoop_AddAlways(groups, plan) ==
    IF plan = <<>> THEN groups
    ELSE LET p == Head(plan)
         IN  IF p.target # "google" THEN GoogleApplyLoop_AddAlways(groups, Tail(plan))
             ELSE IF p.action = "add_group"
             THEN GoogleApplyLoop_AddAlways(Append(groups, p.group), Tail(plan))
             ELSE IF p.action = "remove_group" /\ p.group \in Range(groups)
             THEN GoogleApplyLoop_AddAlways(ListRemove(groups, p.group), Tail(plan))
             ELSE GoogleApplyLoop_AddAlways(groups, Tail(plan))

RECURSIVE GoogleApplyLoop(_, _)
GoogleApplyLoop(groups, plan) ==
    IF plan = <<>> THEN groups
    ELSE LET p == Head(plan)
         IN  IF p.target # "google" THEN GoogleApplyLoop(groups, Tail(plan))
             ELSE IF p.action = "add_group" /\ p.group \notin Range(groups)
             THEN GoogleApplyLoop(Append(groups, p.group), Tail(plan))
             ELSE IF p.action = "remove_group" /\ p.group \in Range(groups)
             THEN GoogleApplyLoop(ListRemove(groups, p.group), Tail(plan))
             ELSE GoogleApplyLoop(groups, Tail(plan))

RECURSIVE GithubApplyLoop(_, _)
GithubApplyLoop(teams, plan) ==
    IF plan = <<>> THEN teams
    ELSE LET p == Head(plan)
         IN  IF p.target # "github" THEN GithubApplyLoop(teams, Tail(plan))
             ELSE IF p.action = "add_team" /\ p.team \notin Range(teams)
             THEN GithubApplyLoop(Append(teams, p.team), Tail(plan))
             ELSE IF p.action = "remove_team" /\ p.team \in Range(teams)
             THEN GithubApplyLoop(ListRemove(teams, p.team), Tail(plan))
             ELSE GithubApplyLoop(teams, Tail(plan))

\* apply without the final sort
GoogleApply_NoSort(g, user_email, plan) ==
    LET groups == IF user_email \in DOMAIN g THEN g[user_email] ELSE <<>>
    IN  [e \in (DOMAIN g) \cup {user_email} |->
            IF e = user_email THEN GoogleApplyLoop(groups, plan) ELSE g[e]]

\* GoogleWSMock.apply: the new _STATE
GoogleApply(g, user_email, plan) ==
    LET groups == IF user_email \in DOMAIN g THEN g[user_email] ELSE <<>>
    IN  [e \in (DOMAIN g) \cup {user_email} |->
            IF e = user_email THEN ListSort(GoogleApplyLoop(groups, plan)) ELSE g[e]]

\* apply that changes the list of every identity it knows
GithubApply_EveryIdentity(h, user_email, plan) ==
    [e \in (DOMAIN h) \cup {user_email} |->
        ListSort(GithubApplyLoop(IF e \in DOMAIN h THEN h[e] ELSE <<>>, plan))]

\* GitHubMock.apply: the new _STATE
GithubApply(h, user_email, plan) ==
    LET teams == IF user_email \in DOMAIN h THEN h[user_email] ELSE <<>>
    IN  [e \in (DOMAIN h) \cup {user_email} |->
            IF e = user_email THEN ListSort(GithubApplyLoop(teams, plan)) ELSE h[e]]

\* adapter.apply(user_email, plan) of the adapter of system sys on its
\* _STATE st: the new _STATE and the value returned, which is the plan
AdapterApply(sys, st, user_email, plan) ==
    [state |-> IF sys = "google" THEN GoogleApply(st, user_email, plan)
               ELSE GithubApply(st, user_email, plan),
     ret |-> plan]

\* fetch_current that records the identity it was asked about
AdapterFetchCurrent_Setdefault(sys, st, user_email) ==
    [state |-> [e \in (DOMAIN st) \cup {user_email} |->
                   IF e \in DOMAIN st THEN st[e] ELSE <<>>],
     ret |-> IF sys = "google"
             THEN (GoogleGroups :> GoogleFetchCurrent(st, user_email))
             ELSE (GithubTeams :> GithubFetchCurrent(st, user_email))]

\* adapter.fetch_current(user_email): _STATE as it leaves it and the dict
\* returned, {"google": {"groups": list}} or {"github": {"teams": list}}
AdapterFetchCurrent(sys, st, user_email) ==
    [state |-> st,
     ret |-> IF sys = "google"
             THEN (GoogleGroups :> GoogleFetchCurrent(st, user_email))
             ELSE (GithubTeams :> GithubFetchCurrent(st, user_email))]

(***************************************************************************)
(* workers/tasks.py: run_sync_task                                         *)
(***************************************************************************)
PyFalse == [t |-> "bool", v |-> FALSE]
PyList(l) == [t |-> "list", v |-> l]
Truthy(x) == IF x.t = "bool" THEN x.v ELSE x.v # <<>>

UserDict(u) ==
    [email |-> u.email, department |-> u.department, title |-> u.title,
     location |-> u.location, employment_type |-> u.employment_type,
     status |-> u.status]

\* if not dry_run: google.apply(u.email, plan); github.apply(u.email, plan)
ApplyBoth_Always(dry_run, g, h, user_email, plan) ==
    [g |-> GoogleApply(g, user_email, plan), h |-> GithubApply(h, user_email, plan)]

ApplyBoth(dry_run, g, h, user_email, plan) ==
    IF dry_run THEN [g |-> g, h |-> h]
    ELSE [g |-> GoogleApply(g, user_email, plan), h |-> GithubApply(h, user_email, plan)]

\* results.append({...}) and the access_cleared counter, after the applies
AppendResult(acc, st, u, desired, gref, href, plan) ==
    [g |-> st.g, h |-> st.h,
     results |-> Append(acc.results,
         [user |-> u.email, user_status |-> u.status, desired |-> desired,
          current |-> (GoogleGroups :> gref) @@ (GithubTeams :> href),
          plan |-> plan,
          access_cleared |->
              IF Lower(u.status) = S_terminated
              THEN [t |-> "ref",
                    ref |-> IF Deref(gref, acc.g, acc.h) # <<>> THEN gref ELSE href]
              ELSE PyFalse]),
     access_cleared |->
         IF /\ Lower(u.status) = S_terminated
            /\ (Deref(gref, acc.g, acc.h) # <<>> \/ Deref(href, acc.g, acc.h) # <<>>)
         THEN acc.access_cleared + 1 ELSE acc.access_cleared,
     raised |-> FALSE]

\* plan = plan_changes(desired, current), then the applies unless dry_run
PlanAndApply(acc, u, dry_run, desired, gref, href, plan) ==
    AppendResult(acc, ApplyBoth(dry_run, acc.g, acc.h, u.email, plan),
                 u, desired, gref, href, plan)

\* current = {}; current.update(google.fetch_current(...)); current.update(github...)
FetchAndPlan(acc, u, dry_run, desired, gref, href) ==
    PlanAndApply(acc, u, dry_run, desired, gref, href,
                 PlanChanges(desired, (GoogleGroups :> Deref(gref, acc.g, acc.h)) @@
                                      (GithubTeams :> Deref(href, acc.g, acc.h))))

\* one iteration of the loop over db.query(User).all(); acc is the task's
\* local state: the adapters' _STATE, results, the access_cleared counter
\* and whether an exception has left the loop.  u.status.lower() raises on
\* a null status, after the plan is computed and before anything is applied
ProcessUser(acc, u, dry_run, policy) ==
    IF u.status = None
    THEN [acc EXCEPT !.raised = TRUE]
    ELSE FetchAndPlan(acc, u, dry_run, DesiredForUser(UserDict(u), policy),
                      GoogleFetchCurrent(acc.g, u.email),
                      GithubFetchCurrent(acc.h, u.email))

RECURSIVE RunLoop(_, _, _, _)
RunLoop(acc, us, dry_run, policy) ==
    IF us = <<>> \/ acc.raised THEN acc
    ELSE RunLoop(ProcessUser(acc, Head(us), dry_run, policy), Tail(us), dry_run, policy)

\* the results list as the task returns it: every list it holds is read
\* when the task returns
ReturnedResults(results, g, h) ==
    [i \in 1..Len(results) |->
        [user |-> results[i].user,
         user_status |-> results[i].user_status,
         desired |-> results[i].desired,
         current |-> [key \in DOMAIN results[i].current |->
                         Deref(results[i].current[key], g, h)],
         plan |-> results[i].plan,
         access_cleared |-> IF results[i].access_cleared.t = "ref"
                            THEN PyList(Deref(results[i].access_cleared.ref, g, h))
                            ELSE results[i].access_cleared]]

NumTerminated(results) ==
    Cardinality({i \in 1..Len(results) : Lower(results[i].user_status) = S_terminated})

\* run.completed_at, run.summary and the returned dict, from the loop's result
FinishRun(acc) ==
    [raised |-> acc.raised, g |-> acc.g, h |-> acc.h,
     results |-> IF acc.raised THEN <<>> ELSE ReturnedResults(acc.results, acc.g, acc.h),
     summary |-> IF acc.raised THEN [null |-> TRUE]
                 ELSE [count |-> Len(acc.results), processed |-> Len(acc.results),
                       access_cleared |-> acc.access_cleared,
                       terminated_users_processed |-> NumTerminated(acc.results)]]

\* the whole task on a users table, a policy file and the adapters' state:
\* the final adapter state, whether it raised, and what it returns
RunSyncTask(dry_run, table, policy, g, h) ==
    FinishRun(RunLoop([g |-> g, h |-> h, results |-> <<>>, access_cleared |-> 0,
                       raised |-> FALSE], table, dry_run, policy))

(***************************************************************************)
(* The inputs of the model: entitlement names, rule predicates, policies   *)
(* and HR rows.                                                            *)
(***************************************************************************)
NA == <<"a">>
NB == <<"b">>
NC == <<"c">>
Names == {NA, NB, NC}

SlackGroups == <<"slack", "groups">>
GoogleTeams == <<"google", "teams">>

Quoted(s) == <<"\"">> \o s \o <<"\"">>

\* location == "Remote"
W_LocationIsRemote == S_location \o EqSep \o Quoted(S_Remote)
\* location != "Remote"
W_LocationNotRemote == S_location \o NeSep \o Quoted(S_Remote)
\* cost_center != "X": no such field in the context
W_CostCenterNotX == <<"c", "o", "s", "t", "_", "c", "e", "n", "t", "e", "r">> \o NeSep \o Quoted(<<"X">>)
\* cost_center == "X"
W_CostCenterIsX == <<"c", "o", "s", "t", "_", "c", "e", "n", "t", "e", "r">> \o EqSep \o Quoted(<<"X">>)
\* title != "SE"
W_TitleNotSE == S_title \o NeSep \o Quoted(S_SE)
\* location in Remote: not a comparison
W_Unsupported == S_location \o <<" ", "i", "n", " ">> \o S_Remote

Policy(roles, rules) == [roles |-> roles, rules |-> rules]
Rule(when, grant) == [when |-> when, grant |-> grant]

RoleEng == (GoogleGroups :> <<NA>>) @@ (GithubTeams :> <<NB>>)
RoleSales == (GoogleGroups :> <<NB>>)

\* Engineering role plus the Remote rule
PolicyRemote ==
    Policy((S_Eng :> RoleEng),
           <<Rule(W_LocationIsRemote, (GithubTeams :> <<NC>>))>>)

\* two roles, no rule
PolicyTwoRoles == Policy((S_Eng :> RoleEng) @@ (S_Sales :> RoleSales), <<>>)

\* two roles and the Remote rule
PolicyTwoRolesRemote ==
    Policy((S_Eng :> RoleEng) @@ (S_Sales :> RoleSales),
           <<Rule(W_LocationIsRemote, (GithubTeams :> <<NC>>))>>)

\* a rule that names a field the context does not have, a grant in a third
\* system and in a second kind of a known system
PolicyOtherSystem ==
    Policy((S_Eng :> RoleEng),
           <<Rule(W_CostCenterNotX, (SlackGroups :> <<NA>>)),
             Rule(W_LocationIsRemote, (GoogleTeams :> <<NB>>) @@ (GithubTeams :> <<NB, NC>>))>>)

\* a rule whose predicate is null and one that is no comparison, before a
\* rule that fires
PolicyBadRules ==
    Policy((S_Sales :> RoleSales),
           <<Rule(None, (GoogleGroups :> <<NC>>)),
             Rule(W_Unsupported, (GoogleGroups :> <<NC>>)),
             Rule(W_LocationNotRemote, (GoogleGroups :> <<NB, NA, NB>>))>>)

PolicyEmpty == Policy(<<>>, <<>>)

\* department == "Eng"
W_DepartmentIsEng == S_department \o EqSep \o Quoted(S_Eng)

\* two rules that are both true for a Remote Engineering employee and grant
\* one name twice
PolicyTwoRules ==
    Policy((S_Eng :> RoleEng),
           <<Rule(W_DepartmentIsEng, (GoogleGroups :> <<NC>>)),
             Rule(W_LocationIsRemote, (GoogleGroups :> <<NC, NB>>) @@ (GithubTeams :> <<NC>>))>>)

PolicyInputs == {PolicyRemote, PolicyTwoRoles, PolicyTwoRolesRemote, PolicyOtherSystem,
                 PolicyBadRules, PolicyEmpty, PolicyTwoRules}

Row(hr_user_id, email, department, location, status) ==
    [hr_user_id |-> hr_user_id, email |-> email, department |-> department,
     title |-> S_SE, location |-> location, employment_type |-> S_FT,
     status |-> status]

StatusInputs == {S_Active, S_Terminated, S_terminated, S_TERMINATED,
                 S_TerminatedPadded, S_Inactive, None}

UserInputs ==
    {Row("u1", "e1", d, l, st) : d \in {S_Eng, S_Sales, None},
                                  l \in {S_Remote, S_US, None},
                                  st \in StatusInputs}

\* the rows of an uploaded HR file: hr_user_id is the key, and nothing keeps
\* two rows from carrying the same email
CsvInputs ==
    { <<Row("u1", "e1", S_Eng, S_Remote, S_Active),
        Row("u2", "e2", S_Sales, S_US, S_Active)>>,
      <<Row("u1", "e1", S_Eng, S_Remote, S_Active),
        Row("u2", "e1", S_Sales, S_US, S_Active)>> }

InitPolicies == {PolicyTwoRolesRemote}

\* the uploads in which no two rows share an e-mail address
DistinctEmails(table) ==
    \A i, j \in 1..Len(table) : table[i].email = table[j].email => i = j

CsvInputsDistinct == {rows \in CsvInputs : DistinctEmails(rows)}

HrUserIds == {"u1", "u2"}

\* PUT /users/{user_id} calls: the user and the fields that were set
UserUpdateInputs ==
    {<<"u1", ("status" :> st)>> : st \in {S_Terminated, None}}
        \cup {<<"u2", ("email" :> "e1")>>}

\* lists of at most MaxListLen names, in any order, repeats allowed
NameLists == UNION {[1..n -> Names] : n \in 0..MaxListLen}

EntDictInputs ==
    {g @@ t @@ o :
        g \in {<<>>} \cup {(GoogleGroups :> l) : l \in NameLists},
        t \in {<<>>, (GithubTeams :> <<>>), (GithubTeams :> <<NB>>)},
        o \in {<<>>, (SlackGroups :> <<NA>>), (GoogleTeams :> <<NB>>)}}

\* the actions a plan can hold and the plans of at most MaxPlanLen actions,
\* in any order, repeats and contradictions allowed
PlanActions ==
    UNION {{GoogleAdd(x), GoogleRemove(x), GithubAdd(x), GithubRemove(x)} : x \in {NA, NB}}

PlanInputs == UNION {[1..n -> PlanActions] : n \in 0..MaxPlanLen}

\* the plans of the calls in a sequence of calls
StepPlanInputs == UNION {[1..n -> PlanActions] : n \in 0..MaxStepPlanLen}

Systems == {"google", "github"}

\* the lists apply leaves behind
CleanLists == {<<>>, <<NA>>, <<NB>>, <<NA, NB>>}

\* an adapter's _STATE: e1 and e2, each with or without an entry
AdapterStateInputs ==
    {s1 @@ s2 : s1 \in {<<>>} \cup {("e1" :> l) : l \in CleanLists},
                s2 \in {<<>>, ("e2" :> <<>>), ("e2" :> <<NA, NB>>)}}

\* requests to POST /rbac/policies: the Sales role gets google group c; the
\* rules are replaced by one rule
PolicyUpdateInputs ==
    { [roles |-> (S_Sales :> [google |-> <<NC>>])],
      [rules |-> <<Rule(W_LocationIsRemote, (GithubTeams :> <<NA>>) @@ (GoogleGroups :> <<>>))>>] }

\* the bodies of POST /rbac/policies/roles/{department} and of
\* POST /rbac/policies/rules
RoleInputs == { [google |-> <<NC>>], [github |-> <<NA>>] }

RuleInputs == { Rule(W_LocationIsRemote, (GithubTeams :> <<NA>>) @@ (GoogleGroups :> <<>>)) }

\* what the adapters hold for the employee a plan is made for
CurrentInputs ==
    {(GoogleGroups :> g) @@ (GithubTeams :> t) : g \in {<<>>, <<NA>>}, t \in {<<>>, <<NB, NC>>}}

PredChars == {" ", "=", "!", "a", "\""}

\* a == "a", a != 'a', "a" == a
W_AIsQuotedA == <<"a">> \o EqSep \o Quoted(<<"a">>)
W_ANotQuotedA == <<"a">> \o NeSep \o <<"'", "a", "'">>
W_QuotedAIsA == Quoted(<<"a">>) \o EqSep \o <<"a">>

SmallContexts == { (<<"a">> :> <<"a">>), (<<"a">> :> None), <<>> }

UserContexts ==
    { RuleContext(Row("u1", "e1", S_Eng, S_Remote, S_Active)),
      RuleContext(Row("u1", "e1", S_Eng, None, S_Active)) }

\* every string of at most MaxPredLen characters against the small contexts,
\* the predicates of the policies against the contexts of two employees
RuleCallInputs ==
    ((UNION {[1..n -> PredChars] : n \in 0..MaxPredLen}
        \cup {W_AIsQuotedA, W_ANotQuotedA, W_QuotedAIsA}) \X SmallContexts) \cup
    ({W_LocationIsRemote, W_LocationNotRemote, W_CostCenterNotX, W_CostCenterIsX,
      W_TitleNotSE, W_Unsupported} \X UserContexts)

(***************************************************************************)
(* The system: the users table, the policy file, the adapters' _STATE, the *)
(* Celery queue of sync tasks, the runs table and the last response.       *)
(***************************************************************************)
NoResponse == [op |-> "none"]

\* the processes at work: the worker's task executions and the request that
\* is writing the policy file; none at first
Workers == {"w1", "w2"}

Idle == [pc |-> "idle"]

NoProcs == [workers |-> [w \in Workers |-> Idle], writer |-> Idle]

Init ==
    /\ users = <<>>
    /\ cfg \in InitPolicies
    /\ backups = <<>>
    /\ audit = <<>>
    /\ procs = NoProcs
    /\ gState = <<>>
    /\ hState = <<>>
    /\ queue = <<>>
    /\ runs = <<>>
    /\ ret = NoResponse
    /\ call = NoResponse

\* POST /sync: run_sync_task.delay(dry_run=dry_run)
Sync(dry_run) ==
    /\ Len(queue) < MaxQueue
    /\ queue' = Append(queue, dry_run)
    /\ ret' = [op |-> "sync", queued |-> TRUE]
    /\ UNCHANGED <<backups, audit, users, cfg, procs, gState, hState, runs, call>>

\* db.add(run); db.commit() and the task's return value
CommitRun(dry_run, out) ==
    /\ gState' = out.g
    /\ hState' = out.h
    /\ runs' = Append(runs, [dry_run |-> dry_run,
                             completed_at |-> IF out.raised THEN "null" ELSE "set",
                             summary |-> out.summary])
    /\ ret' = [op |-> "run_sync_task", dry_run |-> dry_run, raised |-> out.raised,
               run_id |-> Len(runs) + 1, results |-> out.results,
               summary |-> out.summary]

\* the upsert loop of POST /hr/upload: a row replaces the user of the same
\* hr_user_id, or is added
RECURSIVE UpsertRows(_, _)
UpsertRows(table, rows) ==
    IF rows = <<>> THEN table
    ELSE LET u == Head(rows)
             idxs == {i \in 1..Len(table) : table[i].hr_user_id = u.hr_user_id}
         IN  UpsertRows(IF idxs = {} THEN Append(table, u)
                        ELSE [table EXCEPT ![CHOOSE k \in idxs : TRUE] = u],
                        Tail(rows))

NumExisting(table, rows) ==
    Cardinality({k \in 1..Len(rows) :
                    \E i \in 1..Len(table) : table[i].hr_user_id = rows[k].hr_user_id})

\* services/audit.py log(): db.add(AuditLog(...)); db.commit()
AuditRecord(action, entity_type, entity_id, details, success) ==
    [actor |-> "admin", action |-> action, entity_type |-> entity_type,
     entity_id |-> entity_id, details |-> details, success |-> success]

\* POST /hr/upload: the audit record of the upload, the upsert of the rows,
\* the audit record of the change, then a dry-run sync is queued
UploadHrCsv(rows) ==
    /\ Len(queue) < MaxQueue
    /\ Len(audit) < MaxAudit
    /\ users' = UpsertRows(users, rows)
    /\ audit' = audit \o
          <<AuditRecord("hr_upload", "csv_file", "hr.csv", [user_count |-> Len(rows)], TRUE),
            AuditRecord("user_bulk_update", "user_table", "bulk",
                        [created |-> Len(rows) - NumExisting(users, rows),
                         updated |-> NumExisting(users, rows)], TRUE)>>
    /\ queue' = Append(queue, TRUE)
    /\ ret' = [op |-> "upload_hr_csv", uploaded |-> Len(rows),
               created |-> Len(rows) - NumExisting(users, rows),
               updated |-> NumExisting(users, rows)]
    /\ UNCHANGED <<backups, cfg, procs, gState, hState, runs, call>>

\* a worker takes the next task and executes run_sync_task(dry_run)
RunSyncTaskStep ==
    /\ queue # <<>>
    /\ Len(runs) < MaxRuns
    /\ queue' = Tail(queue)
    /\ CommitRun(Head(queue), RunSyncTask(Head(queue), users, cfg, gState, hState))
    /\ UNCHANGED <<backups, audit, users, cfg, procs, call>>

Response(op, status_code) == [op |-> op, status_code |-> status_code]

\* PUT /users/{user_id}
UpdateUser(user_id, update_data) ==
    /\ Len(queue) < MaxQueue
    /\ LET idxs == {i \in 1..Len(users) : users[i].hr_user_id = user_id}
       IN  IF idxs = {}
           THEN /\ ret' = Response("update_user", 404)
                /\ UNCHANGED <<users, queue>>
           ELSE LET i == CHOOSE k \in idxs : TRUE
                    user == users[i]
                    original_status == user.status
                    existing_email ==
                        /\ "email" \in DOMAIN update_data
                        /\ update_data["email"] # user.email
                        /\ \E j \in 1..Len(users) :
                              j # i /\ users[j].email = update_data["email"]
                    updated == [f \in DOMAIN user |->
                                   IF f \in DOMAIN update_data THEN update_data[f] ELSE user[f]]
                    hasStatus == "status" \in DOMAIN update_data
                IN  IF existing_email
                    THEN /\ ret' = Response("update_user", 400)
                         /\ UNCHANGED <<users, queue>>
                    ELSE /\ users' = [users EXCEPT ![i] = updated]
                         /\ IF hasStatus /\ update_data["status"] = None
                            THEN /\ ret' = Response("update_user", 500)
                                 /\ UNCHANGED queue
                            ELSE IF hasStatus /\ Lower(update_data["status"]) = S_terminated
                            THEN IF original_status = None
                                 THEN /\ ret' = Response("update_user", 500)
                                      /\ UNCHANGED queue
                                 ELSE IF Lower(original_status) # S_terminated
                                 THEN /\ queue' = Append(queue, FALSE)
                                      /\ ret' = Response("update_user", 200)
                                 ELSE /\ ret' = Response("update_user", 200)
                                      /\ UNCHANGED queue
                            ELSE /\ ret' = Response("update_user",
                                                    IF updated.status = None THEN 500 ELSE 200)
                                 /\ UNCHANGED queue
    /\ UNCHANGED <<backups, audit, cfg, procs, gState, hState, runs, call>>

\* DELETE /users/{user_id}
DeleteUser(user_id) ==
    /\ Len(queue) < MaxQueue
    /\ LET idxs == {i \in 1..Len(users) : users[i].hr_user_id = user_id}
       IN  IF idxs = {}
           THEN /\ ret' = Response("delete_user", 404)
                /\ UNCHANGED <<users, queue>>
           ELSE LET i == CHOOSE k \in idxs : TRUE
                    original_status == users[i].status
                IN  /\ users' = [users EXCEPT ![i].status = S_Terminated]
                    /\ IF original_status = None
                       THEN /\ ret' = Response("delete_user", 500)
                            /\ UNCHANGED queue
                       ELSE IF Lower(original_status) # S_terminated
                       THEN /\ queue' = Append(queue, FALSE)
                            /\ ret' = Response("delete_user", 200)
                       ELSE /\ ret' = Response("delete_user", 200)
                            /\ UNCHANGED queue
    /\ UNCHANGED <<backups, audit, cfg, procs, gState, hState, runs, call>>

Next ==
    \/ \E rows \in CsvInputs : UploadHrCsv(rows)
    \/ \E dry_run \in BOOLEAN : Sync(dry_run)
    \/ RunSyncTaskStep
    \/ \E in \in UserUpdateInputs : UpdateUser(in[1], in[2])
    \/ \E user_id \in HrUserIds : DeleteUser(user_id)

Spec == Init /\ [][Next]_vars

\* the same system when no upload carries one e-mail address in two rows
NextDistinct ==
    \/ \E rows \in CsvInputsDistinct : UploadHrCsv(rows)
    \/ \E dry_run \in BOOLEAN : Sync(dry_run)
    \/ RunSyncTaskStep
    \/ \E in \in UserUpdateInputs : UpdateUser(in[1], in[2])
    \/ \E user_id \in HrUserIds : DeleteUser(user_id)

SpecDistinct == Init /\ [][NextDistinct]_vars

(***************************************************************************)
(* The pure functions on their own: each action calls one of them on       *)
(* inputs drawn from the input sets and records the inputs and the result. *)
(***************************************************************************)
CallDesiredForUser ==
    /\ call = NoResponse
    /\ \E user \in UserInputs, policy \in PolicyInputs :
          call' = [op |-> "desired_for_user", user |-> user, policy |-> policy,
                   out |-> DesiredForUser(UserDict(user), policy)]
    /\ UNCHANGED <<backups, audit, users, cfg, procs, gState, hState, queue, runs, ret>>

CallPlanChanges ==
    /\ call = NoResponse
    /\ \E desired \in EntDictInputs, current \in EntDictInputs :
          call' = [op |-> "plan_changes", desired |-> desired, current |-> current,
                   out |-> PlanChanges(desired, current)]
    /\ UNCHANGED <<backups, audit, users, cfg, procs, gState, hState, queue, runs, ret>>

CallSafeEvalRule ==
    /\ call = NoResponse
    /\ \E in \in RuleCallInputs :
          call' = [op |-> "_safe_eval_rule", rule_expr |-> in[1], context |-> in[2],
                   out |-> SafeEvalRule(in[1], in[2])]
    /\ UNCHANGED <<backups, audit, users, cfg, procs, gState, hState, queue, runs, ret>>

InitEngine ==
    /\ users = <<>>
    /\ cfg = PolicyEmpty
    /\ backups = <<>>
    /\ audit = <<>>
    /\ procs = NoProcs
    /\ gState = <<>>
    /\ hState = <<>>
    /\ queue = <<>>
    /\ runs = <<>>
    /\ ret = NoResponse
    /\ call = NoResponse

\* one apply call on an adapter, from any _STATE apply can have left
CallApply ==
    /\ call = NoResponse
    /\ \E sys \in Systems, st \in AdapterStateInputs, plan \in PlanInputs :
          call' = [op |-> "apply", sys |-> sys, user_email |-> "e1", before |-> st,
                   plan |-> plan, out |-> AdapterApply(sys, st, "e1", plan)]
    /\ UNCHANGED <<backups, audit, users, cfg, procs, gState, hState, queue, runs, ret>>

NextApply == CallApply

SpecApply == InitEngine /\ [][NextApply]_vars

\* the two adapters driven directly: any sequence of apply and fetch_current
\* calls, from the empty _STATE of a fresh process
ApplyStep(sys, user_email, plan) ==
    /\ gState' = IF sys = "google" THEN AdapterApply(sys, gState, user_email, plan).state
                  ELSE gState
    /\ hState' = IF sys = "github" THEN AdapterApply(sys, hState, user_email, plan).state
                  ELSE hState
    /\ call' = [op |-> "apply", sys |-> sys, user_email |-> user_email]
    /\ UNCHANGED <<backups, audit, users, cfg, procs, queue, runs, ret>>

FetchCurrentStep(sys, user_email) ==
    /\ gState' = IF sys = "google" THEN AdapterFetchCurrent(sys, gState, user_email).state
                  ELSE gState
    /\ hState' = IF sys = "github" THEN AdapterFetchCurrent(sys, hState, user_email).state
                  ELSE hState
    /\ call' = [op |-> "fetch_current", sys |-> sys, user_email |-> user_email,
                out |-> AdapterFetchCurrent(sys, IF sys = "google" THEN gState ELSE hState,
                                           user_email).ret]
    /\ UNCHANGED <<backups, audit, users, cfg, procs, queue, runs, ret>>

Identities == {"e1", "e2"}

NextAdapters ==
    \/ \E sys \in Systems, user_email \in Identities, plan \in StepPlanInputs :
          ApplyStep(sys, user_email, plan)
    \/ \E sys \in Systems, user_email \in Identities : FetchCurrentStep(sys, user_email)

SpecAdapters == InitEngine /\ [][NextAdapters]_vars

(***************************************************************************)
(* The policy file and its writers.  cfg is what yaml.safe_load returns    *)
(* for the file as it is on disk: a policy, or None for an empty file.     *)
(***************************************************************************)
NoPolicy == [none |-> TRUE]

\* IdentityEngine(): self.cfg = yaml.safe_load(ENTL_PATH.read_text())
LoadPolicy(file) == file

\* one role of a request: google.groups and github.teams replace what the
\* role has when the request gives the system, and stay otherwise.  A field
\* that is None in the request is a key the request's record does not have
MergeRole(old, role_config) ==
    [key \in (DOMAIN old)
              \cup (IF "google" \in DOMAIN role_config THEN {GoogleGroups} ELSE {})
              \cup (IF "github" \in DOMAIN role_config THEN {GithubTeams} ELSE {}) |->
        IF key = GoogleGroups /\ "google" \in DOMAIN role_config THEN role_config.google
        ELSE IF key = GithubTeams /\ "github" \in DOMAIN role_config THEN role_config.github
        ELSE old[key]]

\* a rule of a request as it is stored: only the lists that are not empty
StoredRule(rule) ==
    Rule(rule.when, [key \in {k \in DOMAIN rule.grant : rule.grant[k] # <<>>} |-> rule.grant[key]])

\* update_rbac_policies: engine.cfg after the request's roles and rules
\* have been put into the loaded policy
MergedPolicy(loaded, policy_update) ==
    [roles |-> IF "roles" \notin DOMAIN policy_update THEN loaded.roles
               ELSE [d \in (DOMAIN loaded.roles) \cup (DOMAIN policy_update.roles) |->
                        IF d \in DOMAIN policy_update.roles
                        THEN MergeRole(IF d \in DOMAIN loaded.roles THEN loaded.roles[d] ELSE <<>>,
                                       policy_update.roles[d])
                        ELSE loaded.roles[d]],
     rules |-> IF "rules" \notin DOMAIN policy_update THEN loaded.rules
               ELSE [n \in 1..Len(policy_update.rules) |-> StoredRule(policy_update.rules[n])]]

\* the beginning of a document that yaml.safe_dump is still writing: the
\* keys are dumped in sorted order, roles before rules
PartialDocument(policy) == [roles |-> policy.roles, rules |-> <<>>]

\* save_config, lines 86-88: the file's text is written to the backup file
\* named after the second the clock shows.  The backups are kept in the
\* order of their names; a save in the second of the latest backup writes
\* over that backup
BackupWritten(files, text, same_second) ==
    IF same_second /\ files # <<>> THEN [files EXCEPT ![Len(files)] = text]
    ELSE Append(files, text)

\* POST /rbac/policies up to open(ENTL_PATH, 'w') in save_config: the policy
\* is loaded and merged, the backup is taken and the file is truncated.  A
\* load that returns None makes the handler answer 500 without writing
UpdateRbacPoliciesOpen(policy_update) ==
    /\ procs.writer.pc = "idle"
    /\ Len(backups) < MaxBackups
    /\ IF LoadPolicy(cfg) = NoPolicy
       THEN /\ ret' = Response("update_rbac_policies", 500)
            /\ UNCHANGED <<cfg, backups, procs>>
       ELSE /\ \E same_second \in BOOLEAN : backups' = BackupWritten(backups, cfg, same_second)
            /\ cfg' = NoPolicy
            /\ procs' = [procs EXCEPT !.writer =
                            [pc |-> "dump", cfg |-> MergedPolicy(LoadPolicy(cfg), policy_update)]]
            /\ ret' = ret
    /\ UNCHANGED <<audit, users, gState, hState, queue, runs, call>>

\* yaml.safe_dump(self.cfg, f): the buffer reaches the disk in one piece at
\* close, or a first piece reaches it before
UpdateRbacPoliciesDump ==
    /\ procs.writer.pc = "dump"
    /\ \/ /\ cfg = NoPolicy
          /\ cfg' = PartialDocument(procs.writer.cfg)
          /\ UNCHANGED <<procs, ret>>
       \/ /\ cfg' = procs.writer.cfg
          /\ procs' = [procs EXCEPT !.writer = Idle]
          /\ ret' = Response("update_rbac_policies", 200)
    /\ UNCHANGED <<backups, audit, users, gState, hState, queue, runs, call>>

(***************************************************************************)
(* The requests that change the policy, each as one step: the policy is    *)
(* loaded, changed and saved by save_config.                               *)
(***************************************************************************)
\* engine.save_config() and the handler's answer
SaveConfig(policy, op) ==
    /\ Len(backups) < MaxBackups
    /\ \E same_second \in BOOLEAN : backups' = BackupWritten(backups, cfg, same_second)
    /\ cfg' = policy
    /\ ret' = Response(op, 200)
    /\ UNCHANGED <<audit, users, procs, gState, hState, queue, runs, call>>

\* raise HTTPException(status_code=404, ...)
NotFound(op) ==
    /\ ret' = Response(op, 404)
    /\ UNCHANGED <<cfg, backups, audit, users, procs, gState, hState, queue, runs, call>>

\* POST /rbac/policies, on a policy file that holds a policy
UpdateRbacPolicies(policy_update) ==
    /\ LoadPolicy(cfg) # NoPolicy
    /\ SaveConfig(MergedPolicy(LoadPolicy(cfg), policy_update), "update_rbac_policies")

\* POST /rbac/policies/roles/{department}: the role is made anew from the
\* request
CreateOrUpdateRole(department, role_config) ==
    /\ LoadPolicy(cfg) # NoPolicy
    /\ SaveConfig([roles |-> [d \in (DOMAIN cfg.roles) \cup {department} |->
                                 IF d = department THEN MergeRole(<<>>, role_config)
                                 ELSE cfg.roles[d]],
                   rules |-> cfg.rules], "create_or_update_role")

\* DELETE /rbac/policies/roles/{department}
DeleteRole(department) ==
    IF department \notin DOMAIN cfg.roles THEN NotFound("delete_role")
    ELSE SaveConfig([roles |-> [d \in (DOMAIN cfg.roles) \ {department} |-> cfg.roles[d]],
                     rules |-> cfg.rules], "delete_role")

\* POST /rbac/policies/rules
AddConditionalRule(rule) ==
    /\ Len(cfg.rules) < MaxRules
    /\ SaveConfig([roles |-> cfg.roles, rules |-> Append(cfg.rules, StoredRule(rule))],
                  "add_conditional_rule")

\* DELETE /rbac/policies/rules/{rule_index}: the index counts from 0
DeleteConditionalRule(rule_index) ==
    IF rule_index < 0 \/ rule_index >= Len(cfg.rules) THEN NotFound("delete_conditional_rule")
    ELSE SaveConfig([roles |-> cfg.roles,
                     rules |-> [n \in 1..(Len(cfg.rules) - 1) |->
                                   IF n <= rule_index THEN cfg.rules[n] ELSE cfg.rules[n + 1]]],
                    "delete_conditional_rule")

\* the requests that change the policy or the users table in bulk
NextAudit ==
    \/ \E rows \in CsvInputs : UploadHrCsv(rows)
    \/ \E policy_update \in PolicyUpdateInputs : UpdateRbacPolicies(policy_update)
    \/ \E role_config \in RoleInputs : CreateOrUpdateRole(S_Sales, role_config)
    \/ \E department \in {S_Sales, S_Eng} : DeleteRole(department)
    \/ \E rule \in RuleInputs : AddConditionalRule(rule)
    \/ \E rule_index \in 0..1 : DeleteConditionalRule(rule_index)

SpecAudit == Init /\ [][NextAudit]_vars

\* preview_policy_impact, lines 424-455: temp_engine.cfg after the request's
\* roles and rules have been put into the loaded policy.  `if
\* policy_update.roles:` and `if policy_update.rules:` skip a field that is
\* None and a field that is empty
PreviewPolicy(loaded, policy_update) ==
    [roles |-> IF "roles" \notin DOMAIN policy_update \/ DOMAIN policy_update.roles = {}
               THEN loaded.roles
               ELSE [d \in (DOMAIN loaded.roles) \cup (DOMAIN policy_update.roles) |->
                        IF d \in DOMAIN policy_update.roles
                        THEN MergeRole(IF d \in DOMAIN loaded.roles THEN loaded.roles[d] ELSE <<>>,
                                       policy_update.roles[d])
                        ELSE loaded.roles[d]],
     rules |-> IF "rules" \notin DOMAIN policy_update \/ policy_update.rules = <<>>
               THEN loaded.rules
               ELSE [n \in 1..Len(policy_update.rules) |-> StoredRule(policy_update.rules[n])]]

\* db.query(User).filter(User.status == "Active").limit(10).all()
ActiveUsers(table) == SelectSeq(table, LAMBDA u : u.status = S_Active)

\* lines 456-492: every active user's entitlements under the original and
\* under the temporary engine, and the changes where they differ
ImpactSummary(table, original, temp) ==
    LET tested == ActiveUsers(table)
        affected == SelectSeq(tested, LAMBDA u :
                        DesiredForUser(UserDict(u), original) # DesiredForUser(UserDict(u), temp))
    IN  [total_users_tested |-> Len(tested),
         users_affected |-> Len(affected),
         changes_by_user |->
             [n \in 1..Len(affected) |->
                 [user_id |-> affected[n].hr_user_id,
                  original |-> DesiredForUser(UserDict(affected[n]), original),
                  new |-> DesiredForUser(UserDict(affected[n]), temp),
                  changes |-> PlanChanges(DesiredForUser(UserDict(affected[n]), temp),
                                          DesiredForUser(UserDict(affected[n]), original))]]]

\* POST /rbac/policies/preview, on a policy file that holds a policy: the
\* handler saves nothing
PreviewPolicyImpact(policy_update) ==
    /\ LoadPolicy(cfg) # NoPolicy
    /\ call' = [op |-> "preview_policy_impact", policy_update |-> policy_update,
                temp_engine |-> PreviewPolicy(LoadPolicy(cfg), policy_update),
                impact |-> ImpactSummary(users, LoadPolicy(cfg),
                                         PreviewPolicy(LoadPolicy(cfg), policy_update))]
    /\ ret' = Response("preview_policy_impact", 200)
    /\ UNCHANGED <<backups, audit, users, cfg, procs, gState, hState, queue, runs>>

\* requests to POST /rbac/policies and to its preview: a role, a rule, no
\* rules, no roles, nothing
PreviewInputs ==
    PolicyUpdateInputs \cup { [rules |-> <<>>], [roles |-> <<>>], <<>> }

InitPreview ==
    /\ users = <<Row("u1", "e1", S_Eng, S_Remote, S_Active),
                 Row("u2", "e2", S_Sales, S_US, S_Terminated)>>
    /\ cfg \in PolicyInputs
    /\ backups = <<>>
    /\ audit = <<>>
    /\ procs = NoProcs
    /\ gState = <<>>
    /\ hState = <<>>
    /\ queue = <<>>
    /\ runs = <<>>
    /\ ret = NoResponse
    /\ call = NoResponse

NextPreview ==
    \/ \E policy_update \in PreviewInputs : PreviewPolicyImpact(policy_update)
    \/ \E policy_update \in PreviewInputs : UpdateRbacPolicies(policy_update)

SpecPreview == InitPreview /\ [][NextPreview]_vars

(***************************************************************************)
(* run_sync_task step by step, as the worker's pool executes several tasks *)
(* at a time against the same target systems.  A task's local variables    *)
(* are procs.workers[w].                                                   *)
(***************************************************************************)
\* the policy desired_for_user reads: self.cfg, loaded when the engine was
\* built; here when it reads the file again at every call
EnginePolicy_ReadFile(engine_cfg, file) == LoadPolicy(file)

EnginePolicy(engine_cfg, file) == engine_cfg

\* self.cfg.get(...) on None, for an employee who is not terminated
EngineRaises(policy, u) ==
    policy = NoPolicy /\ Lower(Strip(IF u.status = None THEN <<>> ELSE u.status)) # S_terminated

\* lines 16-29: the Run row is committed, the engine loads the policy file
\* and the users are queried
StartRun(w) ==
    /\ procs.workers[w].pc = "idle"
    /\ queue # <<>>
    /\ Len(runs) < MaxWorkerRuns
    /\ queue' = Tail(queue)
    /\ runs' = Append(runs, [dry_run |-> Head(queue), completed_at |-> "null",
                             summary |-> [null |-> TRUE]])
    /\ procs' = [procs EXCEPT !.workers[w] =
                    [pc |-> "loop", dry_run |-> Head(queue), run_id |-> Len(runs) + 1,
                     cfg |-> LoadPolicy(cfg), us |-> users, i |-> 1,
                     results |-> <<>>, access_cleared |-> 0]]
    /\ UNCHANGED <<backups, audit, users, cfg, gState, hState, ret, call>>

\* the task's variables after lines 30-57 for employee u: the fetched lists,
\* the plan, and what lines 45-52 and 62-69 make of them: the result to be
\* appended and the new access_cleared counter
Fetched(t, u, desired, gref, href, plan, g, h) ==
    [pc |-> "apply_google", dry_run |-> t.dry_run, run_id |-> t.run_id, cfg |-> t.cfg,
     us |-> t.us, i |-> t.i, results |-> t.results,
     access_cleared |-> AppendResult([g |-> g, h |-> h, results |-> <<>>,
                                      access_cleared |-> t.access_cleared],
                                     [g |-> g, h |-> h], u, desired, gref, href, plan).access_cleared,
     result |-> AppendResult([g |-> g, h |-> h, results |-> <<>>,
                              access_cleared |-> t.access_cleared],
                             [g |-> g, h |-> h], u, desired, gref, href, plan).results[1],
     plan |-> plan]

\* results.append({...}) for the employee the task is at
Appended(t) ==
    [pc |-> "loop", dry_run |-> t.dry_run, run_id |-> t.run_id, cfg |-> t.cfg,
     us |-> t.us, i |-> t.i + 1, results |-> Append(t.results, t.result),
     access_cleared |-> t.access_cleared]

\* current and plan = plan_changes(desired, current), lines 39-42
FetchedPlan(t, u, desired, gref, href, g, h) ==
    Fetched(t, u, desired, gref, href,
            PlanChanges(desired, (GoogleGroups :> Deref(gref, g, h)) @@
                                 (GithubTeams :> Deref(href, g, h))), g, h)

\* a dry run goes on to results.append at once
AfterFetch(f) == IF f.dry_run THEN Appended(f) ELSE f

\* lines 30-57 for the next employee: desired, the two fetches and the plan.
\* An exception ends the task and leaves the run without completed_at
WorkerFetch(w) ==
    /\ procs.workers[w].pc = "loop"
    /\ procs.workers[w].i <= Len(procs.workers[w].us)
    /\ LET t == procs.workers[w]
           u == t.us[t.i]
       IN  IF EngineRaises(EnginePolicy(t.cfg, cfg), u) \/ u.status = None
           THEN /\ procs' = [procs EXCEPT !.workers[w] = Idle]
                /\ ret' = [op |-> "run_sync_task", dry_run |-> t.dry_run, raised |-> TRUE,
                           run_id |-> t.run_id, results |-> <<>>, summary |-> [null |-> TRUE]]
           ELSE /\ procs' = [procs EXCEPT !.workers[w] =
                     AfterFetch(FetchedPlan(t, u,
                         DesiredForUser(UserDict(u), EnginePolicy(t.cfg, cfg)),
                         GoogleFetchCurrent(gState, u.email),
                         GithubFetchCurrent(hState, u.email), gState, hState))]
                /\ ret' = ret
    /\ UNCHANGED <<backups, audit, users, cfg, gState, hState, queue, runs, call>>

\* line 59: google.apply(u.email, plan)
WorkerApplyGoogle(w) ==
    /\ procs.workers[w].pc = "apply_google"
    /\ gState' = GoogleApply(gState, procs.workers[w].us[procs.workers[w].i].email,
                             procs.workers[w].plan)
    /\ procs' = [procs EXCEPT !.workers[w].pc = "apply_github"]
    /\ UNCHANGED <<backups, audit, users, cfg, hState, queue, runs, ret, call>>

\* lines 60-69: github.apply(u.email, plan) and results.append({...})
WorkerApplyGithub(w) ==
    /\ procs.workers[w].pc = "apply_github"
    /\ hState' = GithubApply(hState, procs.workers[w].us[procs.workers[w].i].email,
                             procs.workers[w].plan)
    /\ procs' = [procs EXCEPT !.workers[w] = Appended(procs.workers[w])]
    /\ UNCHANGED <<backups, audit, users, cfg, gState, queue, runs, ret, call>>

\* the task when it writes completed_at and the summary wherever it is in
\* its loop, between two employees
WorkerFinish_Early(w) ==
    /\ procs.workers[w].pc = "loop"
    /\ LET t == procs.workers[w]
           out == FinishRun([raised |-> FALSE, g |-> gState, h |-> hState,
                             results |-> t.results, access_cleared |-> t.access_cleared])
       IN  /\ runs' = [runs EXCEPT ![t.run_id] =
                          [dry_run |-> t.dry_run, completed_at |-> "set",
                           summary |-> out.summary]]
           /\ ret' = [op |-> "run_sync_task", dry_run |-> t.dry_run, raised |-> FALSE,
                      run_id |-> t.run_id, results |-> out.results, summary |-> out.summary]
    /\ procs' = [procs EXCEPT !.workers[w] = Idle]
    /\ UNCHANGED <<backups, audit, users, cfg, gState, hState, queue, call>>

\* lines 71-86: completed_at, the summary and the returned dict
WorkerFinish(w) ==
    /\ procs.workers[w].pc = "loop"
    /\ procs.workers[w].i > Len(procs.workers[w].us)
    /\ LET t == procs.workers[w]
           out == FinishRun([raised |-> FALSE, g |-> gState, h |-> hState,
                             results |-> t.results, access_cleared |-> t.access_cleared])
       IN  /\ runs' = [runs EXCEPT ![t.run_id] =
                          [dry_run |-> t.dry_run, completed_at |-> "set",
                           summary |-> out.summary]]
           /\ ret' = [op |-> "run_sync_task", dry_run |-> t.dry_run, raised |-> FALSE,
                      run_id |-> t.run_id, results |-> out.results, summary |-> out.summary]
    /\ procs' = [procs EXCEPT !.workers[w] = Idle]
    /\ UNCHANGED <<backups, audit, users, cfg, gState, hState, queue, call>>

\* two employees with different addresses are in the users table
InitWorkers ==
    /\ users = <<Row("u1", "e1", S_Eng, S_Remote, S_Active),
                 Row("u2", "e2", S_Sales, S_US, S_Active)>>
    /\ cfg \in InitPolicies
    /\ backups = <<>>
    /\ audit = <<>>
    /\ procs = NoProcs
    /\ gState = <<>>
    /\ hState = <<>>
    /\ queue = <<>>
    /\ runs = <<>>
    /\ ret = NoResponse
    /\ call = NoResponse

\* sync runs executed side by side
NextWorkers ==
    \/ \E dry_run \in BOOLEAN : Sync(dry_run)
    \/ \E w \in Workers : StartRun(w)
    \/ \E w \in Workers : WorkerFetch(w)
    \/ \E w \in Workers : WorkerApplyGoogle(w)
    \/ \E w \in Workers : WorkerApplyGithub(w)
    \/ \E w \in Workers : WorkerFinish(w)

SpecWorkers == InitWorkers /\ [][NextWorkers]_vars

\* one sync run at a time while requests write the policy file
NextPolicyWrite ==
    \/ \E dry_run \in BOOLEAN : Sync(dry_run)
    \/ Len(runs) < MaxPolicyRuns /\ StartRun("w1")
    \/ WorkerFetch("w1")
    \/ WorkerApplyGoogle("w1")
    \/ WorkerApplyGithub("w1")
    \/ WorkerFinish("w1")
    \/ \E policy_update \in PolicyUpdateInputs : UpdateRbacPoliciesOpen(policy_update)
    \/ UpdateRbacPoliciesDump

SpecPolicyWrite == InitWorkers /\ [][NextPolicyWrite]_vars

(***************************************************************************)
(* utils/csv_loader.py.  The content of a CSV file is what csv.DictReader  *)
(* makes of its text: the names of the header line and the cells of every  *)
(* other line.                                                             *)
(***************************************************************************)
REQUIRED == <<"hr_user_id", "first_name", "last_name", "email", "department",
              "department_code", "title", "job_code", "location", "employment_type",
              "status">>

Letters == Range(UpperChars) \cup Range(LowerChars)
Digits == {"0", "1", "2", "3", "4", "5", "6", "7", "8", "9"}

\* every character of s is one of cs, and s has from lo to hi characters
Matches(s, cs, lo, hi) == Len(s) >= lo /\ Len(s) <= hi /\ \A i \in 1..Len(s) : s[i] \in cs

\* ^[a-zA-Z0-9._%+-]+@[a-zA-Z0-9.-]+\.[a-zA-Z]{2,}$
EMAIL_PATTERN(s) ==
    \E i, j \in 1..Len(s) :
        /\ s[i] = "@"
        /\ s[j] = "."
        /\ i < j
        /\ Matches(SubSeq(s, 1, i - 1), Letters \cup Digits \cup {".", "_", "%", "+", "-"}, 1, Len(s))
        /\ Matches(SubSeq(s, i + 1, j - 1), Letters \cup Digits \cup {".", "-"}, 1, Len(s))
        /\ Matches(SubSeq(s, j + 1, Len(s)), Letters, 2, Len(s))

NAME_PATTERN(s) == Matches(s, Letters \cup {" ", "-", "'"}, 1, 50)
DEPT_PATTERN(s) == Matches(s, Letters \cup {" ", "&"}, 1, 50)
DEPT_CODE_PATTERN(s) == Matches(s, Digits, 4, 4)
JOB_CODE_PATTERN(s) == Matches(s, Digits, 5, 5)
STATUS_PATTERN(s) == s \in {S_Active, S_Terminated, S_Inactive}

\* validate_user_data: whether the errors list stays empty
ValidUserData(user) ==
    /\ EMAIL_PATTERN(user["email"])
    /\ NAME_PATTERN(user["first_name"])
    /\ NAME_PATTERN(user["last_name"])
    /\ DEPT_PATTERN(user["department"])
    /\ DEPT_CODE_PATTERN(user["department_code"])
    /\ JOB_CODE_PATTERN(user["job_code"])
    /\ STATUS_PATTERN(user["status"])
    /\ Matches(user["hr_user_id"], Letters \cup Digits, 1, 20)

\* row.get(k) of the dict DictReader makes of a line: the cell under the
\* column named k, None where the header has no such column or the line is
\* too short
RowGet(fieldnames, cells, k) ==
    IF \E i \in 1..Len(fieldnames) : fieldnames[i] = k /\ i <= Len(cells)
    THEN cells[CHOOSE i \in 1..Len(fieldnames) :
                   /\ fieldnames[i] = k
                   /\ i <= Len(cells)
                   /\ \A j \in 1..Len(fieldnames) : (fieldnames[j] = k /\ j <= Len(cells)) => j <= i]
    ELSE None

\* s[:n]
Truncated(s, n) == IF Len(s) <= n THEN s ELSE SubSeq(s, 1, n)

\* {k: (row.get(k) or "").strip()[:100] for k in REQUIRED}
SanitizedRow(fieldnames, cells) ==
    [k \in Range(REQUIRED) |->
        Truncated(Strip(OrEmpty(RowGet(fieldnames, cells, k))), 100)]

ValueError(message) == [raised |-> TRUE, message |-> message]

\* the loop over the lines: the users so far, or the first error
RECURSIVE ParseRows(_, _, _)
ParseRows(fieldnames, rows, parsed) ==
    IF rows = <<>> THEN [raised |-> FALSE, users |-> parsed]
    ELSE IF ~ValidUserData(SanitizedRow(fieldnames, Head(rows)))
    THEN ValueError("Validation errors")
    ELSE ParseRows(fieldnames, Tail(rows), Append(parsed, SanitizedRow(fieldnames, Head(rows))))

parse_hr_csv(content) ==
    IF content.fieldnames = <<>> THEN ValueError("Empty CSV file")
    ELSE IF \E n \in 1..Len(REQUIRED) : REQUIRED[n] \notin Range(content.fieldnames)
    THEN ValueError("Missing column")
    ELSE ParseRows(content.fieldnames, content.rows, <<>>)

\* the header of the file in tests/unit/test_csv_loader.py
TestHeader == <<"hr_user_id", "first_name", "last_name", "email", "department",
                "title", "location", "employment_type", "status">>

\* a@b.com, the same between blanks, and an address without @
E_ABCOM == <<"a", "@", "b", ".", "c", "o", "m">>
E_ABCOM_PADDED == <<" ", "a", "@", "b", ".", "c", "o", "m", " ">>
E_NOAT == <<"a", "b", ".", "c", "o", "m">>
S_active == <<"a", "c", "t", "i", "v", "e">>

\* the values a line can have in each column
CellInputs(k) ==
    CASE k = "hr_user_id" -> {<<"1">>, <<"2">>}
      [] k = "first_name" -> {<<"A">>}
      [] k = "last_name" -> {<<"B">>}
      [] k = "email" -> {E_ABCOM, E_ABCOM_PADDED, E_NOAT}
      [] k = "department" -> {S_Eng}
      [] k = "department_code" -> {<<"1", "2", "3", "4">>, <<"1", "2">>}
      [] k = "title" -> {S_SE}
      [] k = "job_code" -> {<<"1", "2", "3", "4", "5">>}
      [] k = "location" -> {S_US}
      [] k = "employment_type" -> {S_FT}
      [] k = "status" -> {S_Active, S_active}

LineInputs(fieldnames) ==
    {[i \in 1..Len(fieldnames) |->
         CASE fieldnames[i] = "hr_user_id" -> id
           [] fieldnames[i] = "email" -> email
           [] fieldnames[i] = "department_code" -> department_code
           [] fieldnames[i] = "status" -> status
           [] OTHER -> CHOOSE v \in CellInputs(fieldnames[i]) : TRUE] :
        id \in CellInputs("hr_user_id"), email \in CellInputs("email"),
        department_code \in CellInputs("department_code"), status \in CellInputs("status")}

\* files with the test's header, with every required column, and with no
\* header at all, of at most MaxCsvRows lines
CsvContentInputs ==
    {[fieldnames |-> <<>>, rows |-> <<>>]} \cup
    UNION {{[fieldnames |-> f, rows |-> r] :
                r \in UNION {[1..n -> LineInputs(f)] : n \in 0..MaxCsvRows}} :
           f \in {TestHeader, REQUIRED}}

CallParseHrCsv ==
    /\ call = NoResponse
    /\ \E content \in CsvContentInputs :
          call' = [op |-> "parse_hr_csv", content |-> content, out |-> parse_hr_csv(content)]
    /\ UNCHANGED <<backups, audit, users, cfg, procs, gState, hState, queue, runs, ret>>

NextCsv == CallParseHrCsv

SpecCsv == InitEngine /\ [][NextCsv]_vars

\* one engine, as a run or a preview uses it: desired_for_user for one
\* employee after the other, and plan_changes on what it returned
EngineDesiredForUser(user) ==
    /\ call' = [op |-> "desired_for_user", user |-> user, policy |-> cfg,
                out |-> DesiredForUser(UserDict(user), cfg)]
    /\ cfg' = PolicyAfterDesiredForUser(UserDict(user), cfg)
    /\ UNCHANGED <<backups, audit, users, procs, gState, hState, queue, runs, ret>>

EnginePlanChanges(current) ==
    /\ call.op = "desired_for_user"
    /\ call' = [op |-> "plan_changes", desired |-> call.out, current |-> current,
                out |-> PlanChanges(call.out, current)]
    /\ UNCHANGED <<backups, audit, users, cfg, procs, gState, hState, queue, runs, ret>>

InitPure ==
    /\ users = <<>>
    /\ cfg \in PolicyInputs
    /\ backups = <<>>
    /\ audit = <<>>
    /\ procs = NoProcs
    /\ gState = <<>>
    /\ hState = <<>>
    /\ queue = <<>>
    /\ runs = <<>>
    /\ ret = NoResponse
    /\ call = NoResponse

NextPure ==
    \/ \E user \in UserInputs : EngineDesiredForUser(user)
    \/ \E current \in CurrentInputs : EnginePlanChanges(current)

SpecPure == InitPure /\ [][NextPure]_vars

NextResolver == CallDesiredForUser
NextDiff == CallPlanChanges
NextRule == CallSafeEvalRule

SpecResolver == InitEngine /\ [][NextResolver]_vars
SpecDiff == InitEngine /\ [][NextDiff]_vars
SpecRule == InitEngine /\ [][NextRule]_vars

(***************************************************************************)
(* Properties of the resolver.                                             *)
(***************************************************************************)

\* C1: for an employee whose status is "terminated" in any letter case, and
\* for any policy, desired_for_user returns google.groups = [] and
\* github.teams = [] and holds no other list that is not empty.
C1_TerminatedGetsNothing ==
    (call.op = "desired_for_user" /\ Lower(call.user.status) = S_terminated)
        => /\ GoogleGroups \in DOMAIN call.out /\ call.out[GoogleGroups] = <<>>
           /\ GithubTeams \in DOMAIN call.out /\ call.out[GithubTeams] = <<>>
           /\ \A key \in DOMAIN call.out : call.out[key] = <<>>

\* a terminated Engineering employee at the Remote location, under a policy
\* whose role and whose rule both apply to such an employee
C1_Witness ==
    /\ call.op = "desired_for_user"
    /\ call.user.status = S_TERMINATED
    /\ call.user.department = S_Eng
    /\ call.user.location = S_Remote
    /\ call.policy = PolicyRemote
    /\ call.out = EmptyDesired

\* the set of names d holds under key
NamesOf(d, key) == IF key \in DOMAIN d THEN {d[key][n] : n \in 1..Len(d[key])} ELSE {}

Fires(rule, user) ==
    LET r == SafeEvalRule(rule.when, RuleContext(UserDict(user)))
    IN  ~r.raised /\ r.val

RuleRaises(rule, user) == SafeEvalRule(rule.when, RuleContext(UserDict(user))).raised

NotTerminated(user) == Lower(Strip(OrEmpty(user.status))) # S_terminated

\* C11: in desired_for_user a rule whose evaluation raises grants nothing,
\* no error reaches the caller, and every later rule that is true is
\* granted: each name of the result comes from the role or from a rule that
\* evaluated to true, and each rule after the failing one that is true has
\* all of its grants in the result.
C11_RaisingRuleIsSkipped ==
    (call.op = "desired_for_user" /\ NotTerminated(call.user)) =>
        \A n \in 1..Len(call.policy.rules) :
            RuleRaises(call.policy.rules[n], call.user) =>
                /\ {GoogleGroups, GithubTeams} \subseteq DOMAIN call.out
                /\ \A m \in (n + 1)..Len(call.policy.rules) :
                      Fires(call.policy.rules[m], call.user) =>
                          \A key \in DOMAIN call.policy.rules[m].grant :
                              NamesOf(call.policy.rules[m].grant, key)
                                  \subseteq NamesOf(call.out, key)
                /\ \A key \in DOMAIN call.out : \A x \in NamesOf(call.out, key) :
                      \/ \E d \in DOMAIN call.policy.roles : x \in NamesOf(call.policy.roles[d], key)
                      \/ \E m \in 1..Len(call.policy.rules) :
                            /\ Fires(call.policy.rules[m], call.user)
                            /\ x \in NamesOf(call.policy.rules[m].grant, key)

\* a Sales employee in the US under the policy whose first rule has a null
\* predicate and grants c: the result has the later rule's a and b, not c
C11_Witness ==
    /\ call.op = "desired_for_user"
    /\ call.policy = PolicyBadRules
    /\ call.user.department = S_Sales
    /\ call.user.location = S_US
    /\ call.user.status = S_Active
    /\ call.out = (GoogleGroups :> <<NA, NB>>) @@ (GithubTeams :> <<>>)

\* the names the policy gives the employee under key: the role of the
\* department, and every rule that is true
ExpectedNames(user, policy, key) ==
    (IF Strip(OrEmpty(user.department)) \in DOMAIN policy.roles
     THEN NamesOf(policy.roles[Strip(OrEmpty(user.department))], key) ELSE {})
    \cup UNION {NamesOf(policy.rules[n].grant, key) :
                    n \in {m \in 1..Len(policy.rules) : Fires(policy.rules[m], user)}}

AllKeys(policy) ==
    {GoogleGroups, GithubTeams} \cup UNION {DOMAIN policy.rules[n].grant : n \in 1..Len(policy.rules)}

\* C12: for an employee who is not terminated, the desired set is the union
\* of the grants of the role of the employee's department, when the policy
\* has one, and of the grants of every rule whose predicate is true.
C12_DesiredIsRoleAndFiredRules ==
    (call.op = "desired_for_user" /\ NotTerminated(call.user)) =>
        \A key \in AllKeys(call.policy) \cup DOMAIN call.out :
            NamesOf(call.out, key) = ExpectedNames(call.user, call.policy, key)

\* a Remote Engineering employee under the policy with two rules that both
\* fire: the role's a and b, c from both rules and b from the second
C12_Witness ==
    /\ call.op = "desired_for_user"
    /\ call.policy = PolicyTwoRules
    /\ call.user.department = S_Eng
    /\ call.user.location = S_Remote
    /\ call.user.status = S_Active
    /\ call.out = (GoogleGroups :> <<NA, NB, NC>>) @@ (GithubTeams :> <<NB, NC>>)

\* C13: every list of names in the result of desired_for_user is sorted
\* ascending and has no duplicate.
C13_DesiredListsSortedUnique ==
    call.op = "desired_for_user" =>
        \A key \in DOMAIN call.out :
            \A i, j \in 1..Len(call.out[key]) :
                i < j => StrLess(call.out[key][i], call.out[key][j])

\* github team b comes from the Engineering role and from the Remote rule,
\* which lists b before c: the result has b once
C13_Witness ==
    /\ call.op = "desired_for_user"
    /\ call.policy = PolicyOtherSystem
    /\ call.user.department = S_Eng
    /\ call.user.location = S_Remote
    /\ call.user.status = S_Active
    /\ call.out[GithubTeams] = <<NB, NC>>

(***************************************************************************)
(* Properties of the diff.                                                 *)
(***************************************************************************)
GoogleSegment(plan, lo, hi, action, S) ==
    /\ hi - lo + 1 = Cardinality(S)
    /\ \A n \in lo..hi :
          /\ DOMAIN plan[n] = {"target", "action", "group"}
          /\ plan[n].target = "google"
          /\ plan[n].action = action
          /\ plan[n].group \in S
    /\ \A n \in lo..(hi - 1) : StrLess(plan[n].group, plan[n + 1].group)

GithubSegment(plan, lo, hi, action, S) ==
    /\ hi - lo + 1 = Cardinality(S)
    /\ \A n \in lo..hi :
          /\ DOMAIN plan[n] = {"target", "action", "team"}
          /\ plan[n].target = "github"
          /\ plan[n].action = action
          /\ plan[n].team \in S
    /\ \A n \in lo..(hi - 1) : StrLess(plan[n].team, plan[n + 1].team)

ExpectedPlan(plan, desired, current) ==
    \E i \in 0..Len(plan) : \E j \in i..Len(plan) : \E k \in j..Len(plan) :
        /\ GoogleSegment(plan, 1, i, "add_group",
               NamesOf(desired, GoogleGroups) \ NamesOf(current, GoogleGroups))
        /\ GoogleSegment(plan, i + 1, j, "remove_group",
               NamesOf(current, GoogleGroups) \ NamesOf(desired, GoogleGroups))
        /\ GithubSegment(plan, j + 1, k, "add_team",
               NamesOf(desired, GithubTeams) \ NamesOf(current, GithubTeams))
        /\ GithubSegment(plan, k + 1, Len(plan), "remove_team",
               NamesOf(current, GithubTeams) \ NamesOf(desired, GithubTeams))

\* C4: plan_changes(desired, current) is, for google groups, one add per
\* element of desired - current in sorted order, then one remove per
\* element of current - desired in sorted order, then the same for github
\* teams; an element of both produces no action.
C4_PlanIsSortedAddsThenRemoves ==
    call.op = "plan_changes" => ExpectedPlan(call.out, call.desired, call.current)

\* desired [a, b], current [b, c]: add a, remove c
C4_Witness ==
    /\ call.op = "plan_changes"
    /\ EntGet(call.desired, GoogleGroups) = <<NA, NB>>
    /\ EntGet(call.current, GoogleGroups) = <<NB, NC>>
    /\ EntGet(call.desired, GithubTeams) = EntGet(call.current, GithubTeams)
    /\ call.out = <<GoogleAdd(NA), GoogleRemove(NC)>>

\* C5: the plan is empty if and only if desired and current hold the same
\* names for every system and every kind present in either of them.
C5_EmptyPlanIffEqual ==
    call.op = "plan_changes" =>
        ((call.out = <<>>) <=>
            \A key \in (DOMAIN call.desired) \cup (DOMAIN call.current) :
                NamesOf(call.desired, key) = NamesOf(call.current, key))

(***************************************************************************)
(* Properties of the adapters.                                             *)
(***************************************************************************)

\* C14: apply called twice with one plan on one adapter state leaves the
\* state that one call leaves, for every plan and every starting state.
C14_ApplyTwiceIsApplyOnce ==
    call.op = "apply" =>
        AdapterApply(call.sys, call.out.state, call.user_email, call.plan).state
            = call.out.state

\* the plan adds a and then removes a, for an identity that has b
C14_Witness ==
    /\ call.op = "apply"
    /\ call.sys = "google"
    /\ call.plan = <<GoogleAdd(NA), GoogleRemove(NA)>>
    /\ "e1" \in DOMAIN call.before /\ call.before["e1"] = <<NB>>
    /\ call.out.state["e1"] = <<NB>>

ActionName(p) == IF p.target = "google" THEN p.group ELSE p.team

IsAdd(p) == p.action \in {"add_group", "add_team"}

\* the positions of plan that hold an action of system sys on name x
OwnActionsOn(sys, plan, x) ==
    {n \in 1..Len(plan) : plan[n].target = sys /\ ActionName(plan[n]) = x}

Max(S) == CHOOSE n \in S : \A m \in S : m <= n

\* C15: apply(identity, plan) changes the state by the actions of the
\* adapter's own system only and for the given identity only: a name is
\* in the identity's list afterwards exactly if the last action of the own
\* system on it is an add, or no such action exists and it was there; the
\* entry of every other identity is as before; the value returned is the
\* plan it was given.
C15_ApplyTouchesOwnSystemAndIdentity ==
    call.op = "apply" =>
        /\ call.out.ret = call.plan
        /\ DOMAIN call.out.state = (DOMAIN call.before) \cup {call.user_email}
        /\ \A e \in (DOMAIN call.before) \ {call.user_email} :
              call.out.state[e] = call.before[e]
        /\ \A x \in {NA, NB, NC} :
              (x \in Range(call.out.state[call.user_email])) <=>
                  IF OwnActionsOn(call.sys, call.plan, x) = {}
                  THEN x \in Range(EntGet(call.before, call.user_email))
                  ELSE IsAdd(call.plan[Max(OwnActionsOn(call.sys, call.plan, x))])

\* the GitHub adapter is given a plan with a google action and a github
\* action, for e1, while e2 has an entry
C15_Witness ==
    /\ call.op = "apply"
    /\ call.sys = "github"
    /\ call.plan = <<GoogleAdd(NA), GithubRemove(NA)>>
    /\ call.before = ("e1" :> <<NA, NB>>) @@ ("e2" :> <<NA, NB>>)
    /\ call.out.state = ("e1" :> <<NB>>) @@ ("e2" :> <<NA, NB>>)
    /\ call.out.ret = call.plan

IsSortedUnique(l) == \A i, j \in 1..Len(l) : i < j => StrLess(l[i], l[j])

\* C16: after any sequence of apply calls, the list an adapter holds for an
\* identity is sorted ascending and has no duplicate.
C16_AdapterListsSortedUnique ==
    /\ \A e \in DOMAIN gState : IsSortedUnique(gState[e])
    /\ \A e \in DOMAIN hState : IsSortedUnique(hState[e])

\* apply calls have left two names for e1 in Google and for e2 in GitHub
C16_Witness ==
    /\ call.op = "apply"
    /\ "e1" \in DOMAIN gState /\ gState["e1"] = <<NA, NB>>
    /\ "e2" \in DOMAIN hState /\ hState["e2"] = <<NA, NB>>

OwnKey(sys) == IF sys = "google" THEN GoogleGroups ELSE GithubTeams

\* C17: fetch_current for an identity the adapter holds nothing for returns
\* an empty list under the adapter's own key and nothing else, and leaves
\* the state of both adapters as it was: no entry appears for the identity.
C17_FetchUnknownIdentity ==
    [][(/\ call'.op = "fetch_current"
        /\ call'.user_email \notin DOMAIN (IF call'.sys = "google" THEN gState ELSE hState))
          => /\ DOMAIN call'.out = {OwnKey(call'.sys)}
             /\ Deref(call'.out[OwnKey(call'.sys)], gState', hState') = <<>>
             /\ gState' = gState
             /\ hState' = hState]_vars

\* GitHub is asked about e2, of which it holds nothing, while it holds a
\* list for e1
C17_Witness ==
    /\ call.op = "fetch_current"
    /\ call.sys = "github"
    /\ call.user_email = "e2"
    /\ "e2" \notin DOMAIN hState
    /\ "e1" \in DOMAIN hState /\ hState["e1"] # <<>>
    /\ call.out = (GithubTeams :> FreshList)

(***************************************************************************)
(* Properties of the rule evaluator.                                       *)
(***************************************************************************)
NonBlank(s) == \E n \in 1..Len(s) : s[n] # " "

\* s is <field> == <literal> or <field> != <literal>: an operator with a
\* space on either side, between two texts that are not blank
IsComparisonForm(s) ==
    \E n \in 1..(Len(s) - 3) :
        /\ SubSeq(s, n, n + 3) \in {EqSep, NeSep}
        /\ NonBlank(SubSeq(s, 1, n - 1))
        /\ NonBlank(SubSeq(s, n + 4, Len(s)))

\* C9: a predicate string that is not of the form <field> == <literal> or
\* <field> != <literal> evaluates to false and does not raise, in every
\* context.
C9_UnparseableIsFalse ==
    (call.op = "_safe_eval_rule" /\ ~IsComparisonForm(call.rule_expr))
        => call.out = Returned(FALSE)

\* "location in Remote" for an employee at the Remote location
C9_Witness ==
    /\ call.op = "_safe_eval_rule"
    /\ call.rule_expr = W_Unsupported
    /\ CtxGet(call.context, S_location) = S_Remote
    /\ call.out = Returned(FALSE)

IsFieldName(s) ==
    /\ s # <<>>
    /\ \A n \in 1..Len(s) : s[n] \notin {" ", "=", "!", "\"", "'"}

\* rule_expr is <field> <op> <literal> with a field name that the context
\* does not have, or has with a null value
ComparesMissingField(rule_expr, context) ==
    \E n \in 1..(Len(rule_expr) - 3) :
        /\ SubSeq(rule_expr, n, n + 3) \in {EqSep, NeSep}
        /\ IsFieldName(SubSeq(rule_expr, 1, n - 1))
        /\ CtxGet(context, SubSeq(rule_expr, 1, n - 1)) = None
        /\ NonBlank(SubSeq(rule_expr, n + 4, Len(rule_expr)))

\* C10: a predicate whose field is missing from the context, or null in it,
\* evaluates to false, in the == form and in the != form.
C10_MissingFieldIsFalse ==
    (call.op = "_safe_eval_rule" /\ ComparesMissingField(call.rule_expr, call.context))
        => call.out = Returned(FALSE)

(***************************************************************************)
(* Properties of the sync run.                                             *)
(***************************************************************************)
SameReports(a, b) ==
    /\ Len(a.results) = Len(b.results)
    /\ \A i \in 1..Len(a.results) :
          /\ a.results[i].desired = b.results[i].desired
          /\ a.results[i].current = b.results[i].current
          /\ a.results[i].plan = b.results[i].plan

\* C2: a dry run and a live run started from the same employees, the same
\* policy and the same adapter state report the same desired, current and
\* plan for every employee.
C2_DryRunReportsWhatLiveRunReports ==
    SameReports(RunSyncTask(TRUE, users, cfg, gState, hState),
                RunSyncTask(FALSE, users, cfg, gState, hState))

IsSyncRun(before, after) == Len(after) = Len(before) + 1

\* C3: a run with dry_run = true leaves the state of the Google and of the
\* GitHub adapter as it was, for every identity.
C3_DryRunLeavesAdapters ==
    [][(IsSyncRun(runs, runs') /\ runs'[Len(runs')].dry_run)
          => (gState' = gState /\ hState' = hState)]_vars

\* a dry run has returned a plan that is not empty
C3_Witness ==
    /\ ret.op = "run_sync_task"
    /\ ret.dry_run
    /\ ~ret.raised
    /\ \E i \in 1..Len(ret.results) : ret.results[i].plan # <<>>

QuietRun(out, g, h) ==
    /\ ~out.raised
    /\ \A i \in 1..Len(out.results) : out.results[i].plan = <<>>
    /\ out.g = g
    /\ out.h = h

\* C6: once a live run has completed, a second run over the same employees
\* and the same policy has an empty plan for every employee and leaves the
\* adapters as they are.
C6_SecondRunChangesNothing ==
    (ret.op = "run_sync_task" /\ ~ret.dry_run /\ ~ret.raised)
        => QuietRun(RunSyncTask(FALSE, users, cfg, gState, hState), gState, hState)

HasAccess(acc, email) ==
    \/ (email \in DOMAIN acc.g /\ acc.g[email] # <<>>)
    \/ (email \in DOMAIN acc.h /\ acc.h[email] # <<>>)

\* the adapters as employee number i of the run finds them
AdaptersBefore(i, dry_run, table, policy, g, h) ==
    RunLoop([g |-> g, h |-> h, results |-> <<>>, access_cleared |-> 0, raised |-> FALSE],
            SubSeq(table, 1, i - 1), dry_run, policy)

\* C7: in the results of every run, an employee's access_cleared is true if
\* and only if the employee is terminated and the current state fetched for
\* the employee was not empty in some system.
C7_AccessClearedIffTerminatedWithAccess ==
    [][(IsSyncRun(runs, runs') /\ ~ret'.raised)
          => \A i \in 1..Len(ret'.results) :
                Truthy(ret'.results[i].access_cleared) <=>
                    /\ Lower(users[i].status) = S_terminated
                    /\ HasAccess(AdaptersBefore(i, ret'.dry_run, users, cfg, gState, hState),
                                 users[i].email)]_vars

\* C8: a run that meets a failure for one employee still records a result
\* for every employee and completes: completed_at is set and the summary is
\* written.
C8_RunCompletesWithEveryEmployee ==
    ret.op = "run_sync_task"
        => /\ ~ret.raised
           /\ Len(ret.results) = Len(users)
           /\ runs[ret.run_id].completed_at = "set"
           /\ runs[ret.run_id].summary = ret.summary
           /\ ret.summary.processed = Len(users)

\* the employee a task is at, between its fetch and its applies
AtEmployee(t) == t.us[t.i].email

\* task t has fetched the employee's current state and has not finished its
\* apply to the system
BetweenFetchAndApply(t, sys) ==
    \/ t.pc = "apply_google"
    \/ t.pc = "apply_github" /\ sys = "github"

\* the step taken is task w's apply to the system
AppliesTo(w, sys) ==
    IF sys = "google"
    THEN procs.workers[w].pc = "apply_google" /\ procs'.workers[w].pc = "apply_github"
    ELSE procs.workers[w].pc = "apply_github" /\ procs'.workers[w].pc = "loop"

\* C18: two concurrent sync runs never interleave their applies for the same
\* employee against the same system: while one run is between its fetch of
\* the employee's current state and the end of its apply to a system, no
\* other run applies a plan for that employee to that system.
C18_NoInterleavedApplies ==
    [][\A w, v \in Workers : \A sys \in Systems :
          (/\ w # v
           /\ BetweenFetchAndApply(procs.workers[w], sys)
           /\ AppliesTo(v, sys))
          => AtEmployee(procs.workers[v]) # AtEmployee(procs.workers[w])]_vars

\* the tasks that are executing
Running == {w \in Workers : procs.workers[w].pc # "idle"}

\* what the engine makes of an employee under a policy: the desired
\* entitlements, or an exception
Evaluated(u, policy) ==
    IF EngineRaises(policy, u) THEN [raises |-> TRUE] ELSE DesiredForUser(UserDict(u), policy)

\* C19: the policy used by one sync run is consistent for the whole run:
\* every employee the run has evaluated was evaluated against the policy
\* that the file held when the run started, whatever has been written to
\* the file since.
C19_RunUsesPolicyOfItsStart ==
    \A w \in Running :
        \A k \in 1..Len(procs.workers[w].results) :
            procs.workers[w].results[k].desired =
                Evaluated(procs.workers[w].us[k], procs.workers[w].cfg)

\* a run that started under one policy has evaluated its second employee
\* after a request replaced the policy file, and the new policy would have
\* given that employee something else
C19_Witness ==
    \E w \in Running :
        /\ procs.writer.pc = "idle"
        /\ ret = Response("update_rbac_policies", 200)
        /\ cfg # procs.workers[w].cfg
        /\ Len(procs.workers[w].results) = 2
        /\ procs.workers[w].results[2].desired
              # Evaluated(procs.workers[w].us[2], cfg)

\* every policy that a sequence of completed requests can leave in the file
RECURSIVE VersionsFrom(_)
VersionsFrom(S) ==
    IF {MergedPolicy(p, u) : p \in S, u \in PolicyUpdateInputs} \subseteq S THEN S
    ELSE VersionsFrom(S \cup {MergedPolicy(p, u) : p \in S, u \in PolicyUpdateInputs})

PolicyVersions == VersionsFrom(InitPolicies)

\* C20: loading the policy never returns a partially-written document: what
\* a run's engine has loaded is the complete policy as one save_config left
\* it, the version before or the version after a save it ran alongside.
C20_LoadSeesCompleteVersion ==
    \A w \in Running : procs.workers[w].cfg \in PolicyVersions

\* the step taken is a save_config that overwrites the policy file
IsSave == procs.writer.pc = "idle" /\ procs'.writer.pc = "dump"

\* C21: every overwrite of the policy file is preceded by a timestamped
\* backup of the version being overwritten, and after any sequence of saves
\* each version that a save overwrote is held by a backup file: a save adds
\* the version it overwrites to the backups and takes none of the versions
\* backed up before away.
C21_OverwrittenVersionsBackedUp ==
    [][IsSave => /\ cfg \in Range(backups')
                 /\ Range(backups) \subseteq Range(backups')]_vars

\* the tasks that are executing run k
TasksOf(k) == {w \in Running : procs.workers[w].run_id = k}

\* C22: a Run record is persisted with completed_at = null before any
\* employee is processed; completed_at and the summary are written exactly
\* once, only after every employee of the run has been processed, and a
\* run whose completed_at is set has a result for every employee.
C22_RunCompletedOnceAfterAllEmployees ==
    [][/\ Len(runs') >= Len(runs)
       /\ \A k \in 1..Len(runs') :
            IF k > Len(runs)
            THEN \* a new run: persisted without completed_at, nobody processed
                 /\ runs'[k].completed_at = "null"
                 /\ runs'[k].summary = [null |-> TRUE]
                 /\ \E w \in Workers :
                       /\ procs.workers[w].pc = "idle"
                       /\ procs'.workers[w].pc = "loop"
                       /\ procs'.workers[w].run_id = k
                       /\ procs'.workers[w].i = 1
                       /\ procs'.workers[w].results = <<>>
            ELSE IF runs[k].completed_at = "set"
            THEN \* written once
                 runs'[k] = runs[k]
            ELSE IF runs'[k].completed_at = "set"
            THEN \* the completion: every employee has a result
                 \E w \in TasksOf(k) :
                       /\ Len(procs.workers[w].results) = Len(procs.workers[w].us)
                       /\ ret'.run_id = k
                       /\ Len(ret'.results) = Len(procs.workers[w].us)
                       /\ \A n \in 1..Len(ret'.results) :
                              ret'.results[n].user = procs.workers[w].us[n].email
                       /\ runs'[k].summary = ret'.summary
                       /\ runs'[k].summary.processed = Len(procs.workers[w].us)
            ELSE \* still running or failed: the record stays as it was made
                 runs'[k] = runs[k]]_vars

\* a run over the two employees has completed
C22_Witness ==
    /\ ret.op = "run_sync_task"
    /\ ~ret.raised
    /\ runs[ret.run_id].completed_at = "set"
    /\ Len(ret.results) = 2
    /\ ret.summary.processed = 2

\* the requests that change the policy
PolicyOps == {"update_rbac_policies", "create_or_update_role", "delete_role",
              "add_conditional_rule", "delete_conditional_rule"}

\* the audit records a step has added
Emitted == SubSeq(audit', Len(audit) + 1, Len(audit'))

\* C23: one audit record is emitted for every policy mutation (update
\* policies, create or update role, delete role, add rule, delete rule) and
\* one for every bulk change of the employees (HR CSV upload), and audit
\* records are only ever appended.
C23_OneAuditRecordPerMutation ==
    [][/\ Len(audit') >= Len(audit)
       /\ SubSeq(audit', 1, Len(audit)) = audit
       /\ (ret'.op \in PolicyOps /\ ret'.status_code = 200) => Len(Emitted) = 1
       /\ ret'.op = "upload_hr_csv"
            => Cardinality({n \in 1..Len(Emitted) :
                               Emitted[n].action = "user_bulk_update"}) = 1]_vars

\* C24: desired_for_user and plan_changes are pure: no call changes the
\* loaded policy (engine.cfg is the same before and after any number of
\* calls), and the same employee on the same engine gets the same result
\* from one call to the next.
C24_CallsLeaveThePolicy ==
    [][/\ cfg' = cfg
       /\ (/\ call.op = "desired_for_user"
           /\ call'.op = "desired_for_user"
           /\ call'.user = call.user) => call'.out = call.out]_vars

\* a call for an employee for whom a rule fires that grants in a system the
\* result does not start with, followed by a plan
C24_Witness ==
    /\ call.op = "plan_changes"
    /\ cfg = PolicyOtherSystem
    /\ SlackGroups \in DOMAIN call.desired
    /\ call.desired[SlackGroups] # <<>>
    /\ call.out # <<>>

\* whether a line is valid in the columns a header has
ValidLine(fieldnames, cells) ==
    \A i \in 1..Len(fieldnames) :
        CASE fieldnames[i] = "email" -> EMAIL_PATTERN(Strip(cells[i]))
          [] fieldnames[i] = "status" -> STATUS_PATTERN(Strip(cells[i]))
          [] fieldnames[i] = "department_code" -> DEPT_CODE_PATTERN(Strip(cells[i]))
          [] fieldnames[i] = "job_code" -> JOB_CODE_PATTERN(Strip(cells[i]))
          [] OTHER -> TRUE

\* C25: parse_hr_csv accepts a file whose header is hr_user_id, first_name,
\* last_name, email, department, title, location, employment_type, status
\* and whose lines are valid, and returns one record per line, in order,
\* with the line's e-mail address.
C25_TestHeaderIsAccepted ==
    (/\ call.op = "parse_hr_csv"
     /\ call.content.fieldnames = TestHeader
     /\ \A n \in 1..Len(call.content.rows) : ValidLine(TestHeader, call.content.rows[n]))
        => /\ ~call.out.raised
           /\ Len(call.out.users) = Len(call.content.rows)
           /\ \A n \in 1..Len(call.content.rows) :
                  call.out.users[n]["email"] = Strip(call.content.rows[n][4])

\* the employees (by position in the users table) whose status a step
\* changes from a value that is not terminated to Terminated
NewlyTerminated ==
    {i \in 1..Len(users) :
        /\ i <= Len(users')
        /\ users'[i].hr_user_id = users[i].hr_user_id
        /\ (users[i].status = None \/ Lower(users[i].status) # S_terminated)
        /\ users'[i].status = S_Terminated}

\* C26: when update_user or delete_user changes an employee's status from a
\* value that is not terminated to Terminated, a live sync is queued with
\* the change; when the employee was terminated already, none is queued.
C26_NewTerminationQueuesLiveSync ==
    [][ret'.op \in {"update_user", "delete_user"}
          => IF NewlyTerminated # {}
             THEN queue' = Append(queue, FALSE)
             ELSE queue' = queue]_vars

\* C27: when a live run completes without error, the Google and the GitHub
\* adapter hold no entitlement under the e-mail address of any employee
\* whose status is Terminated, whatever they held before the run.
C27_LiveRunClearsTerminated ==
    [][(IsSyncRun(runs, runs') /\ ~ret'.dry_run /\ ~ret'.raised)
          => \A i \in 1..Len(users) :
                Lower(users[i].status) = S_terminated
                    => ~HasAccess([g |-> gState', h |-> hState'], users[i].email)]_vars

\* C28: in the value a sync run returns, summary.processed is the number of
\* employees, summary.terminated_users_processed is the number of results
\* whose status is terminated, and summary.access_cleared is the number of
\* results whose access_cleared is truthy.
C28_SummaryAgreesWithResults ==
    (ret.op = "run_sync_task" /\ ~ret.raised)
        => /\ ret.summary.processed = Len(users)
           /\ ret.summary.terminated_users_processed = NumTerminated(ret.results)
           /\ ret.summary.access_cleared =
                  Cardinality({i \in 1..Len(ret.results) :
                                  Truthy(ret.results[i].access_cleared)})

\* what fetch_current of both adapters holds for an identity
CurrentOf(acc, email) ==
    (GoogleGroups :> Deref(GoogleFetchCurrent(acc.g, email), acc.g, acc.h)) @@
    (GithubTeams :> Deref(GithubFetchCurrent(acc.h, email), acc.g, acc.h))

\* C29: the current recorded in an employee's result is the adapter state
\* as it was fetched for that employee, before the employee's plan was
\* applied; no apply of the same run changes it afterwards.
C29_CurrentIsSnapshotAtFetch ==
    [][(IsSyncRun(runs, runs') /\ ~ret'.raised)
          => \A i \in 1..Len(ret'.results) :
                ret'.results[i].current =
                    CurrentOf(AdaptersBefore(i, ret'.dry_run, users, cfg, gState, hState),
                              users[i].email)]_vars

\* C30: for every PolicyUpdate, one with an empty rules list or an empty
\* roles mapping included, the policy of the preview's temporary engine is
\* the policy update_rbac_policies would save for it, and the preview
\* leaves the stored policy as it is.
C30_PreviewUsesThePolicyOfUpdate ==
    [][(ret'.op = "preview_policy_impact" /\ call'.op = "preview_policy_impact")
          => /\ call'.temp_engine = MergedPolicy(LoadPolicy(cfg), call'.policy_update)
             /\ cfg' = cfg]_vars

====
